---------------------------- MODULE Spec2Model ----------------------------
(***************************************************************************)
(* Reconstruction and aggregation engine of the sphere game data app.      *)
(*                                                                         *)
(* A batch of telemetry events (`data') is handed to the pages; each page  *)
(* derives its figures from the whole batch (Dashboard.calculateStats,     *)
(* PlayersList.processPlayersData, DescriptiveAnalysis.analysisData,       *)
(* CorrelationAnalysis.processedData, RegressionAnalysis.processedData,    *)
(* PlayerDetail/SessionDetail/GameDetail).                                 *)
(*                                                                         *)
(* Encoding of JavaScript values                                           *)
(*   - a string is a sequence of one-character strings: "AR" is            *)
(*     <<"A","R">>, '' is <<>>;                                            *)
(*   - null and undefined in a string field are the reserved one-element   *)
(*     sequences JsNull and JsUndefined (no character is that long);       *)
(*   - game_level is an integer, NullNum standing for null/undefined;      *)
(*   - event_at is the timestamp in milliseconds (what new Date(..) - 0    *)
(*     yields); a response time in seconds is durationMs / 1000;           *)
(*   - a number handed to the statistics functions is a rational in lowest *)
(*     terms [num, den]; den = 0 stands for a non-finite number (NaN when  *)
(*     num = 0, +/-Infinity otherwise).                                    *)
(***************************************************************************)
EXTENDS Integers, Sequences, FiniteSets

VARIABLES
    data,       \* the batch of events supplied by useGameData()
    view,       \* the page last rendered and what it derived from data
    gameMode,   \* argument of the last/next call of mapGameModeToCategory
    category,   \* its result ("unset" before the call)
    args,       \* arguments of a call of a statistics function
    result,     \* what the call returned (NoResult before the call)
    auth,       \* AuthProvider: token and user state, localStorage, the
                \* location, the calls of login / logout in flight
    loader,     \* GameDataProvider: loading, error, the data sources and
                \* the calls of fetchData in flight (its data is `data`)
    table       \* the Data page: filters, sort, pagination

vars == <<data, view, gameMode, category, args, result, auth, loader, table>>

-----------------------------------------------------------------------------
(* Bounds of the model *)

MaxEvents == 3

MaxModeLen == 4

\* the longest array of numbers handed to a statistics function
MaxValues == 4

\* the largest number of histogram bins
MaxBins == 3

\* the longest pair of series handed to a correlation, a regression or a
\* paired test
MaxPairs == 3

\* the largest number of rows of a contingency table
MaxRows == 3

\* groups handed to performANOVA
MaxGroups == 3

\* events a data source holds at most
MaxSource == 2

\* calls of fetchData between two loads of the page
MaxFetches == 3

\* records of the largest batch on the Data page
MaxRecords == 21

-----------------------------------------------------------------------------
(* JavaScript strings *)

JsNull == <<"null">>

JsUndefined == <<"undefined">>

\* !s for a string-or-null value: null, undefined and '' are falsy
Falsy(s) == s = JsNull \/ s = JsUndefined \/ s = <<>>

Truthy(s) == ~Falsy(s)

UpperAlpha ==
    <<"A","B","C","D","E","F","G","H","I","J","K","L","M",
      "N","O","P","Q","R","S","T","U","V","W","X","Y","Z">>

LowerAlpha ==
    <<"a","b","c","d","e","f","g","h","i","j","k","l","m",
      "n","o","p","q","r","s","t","u","v","w","x","y","z">>

LowerChar(c) ==
    IF \E i \in 1..26 : UpperAlpha[i] = c
    THEN LowerAlpha[CHOOSE i \in 1..26 : UpperAlpha[i] = c]
    ELSE c

\* String.prototype.toLowerCase
toLowerCase(s) == [i \in 1..Len(s) |-> LowerChar(s[i])]

WhiteSpace == {" ", "\t", "\n", "\r"}

\* String.prototype.trim: drop the leading and the trailing white space
trim(s) ==
    LET keep == {i \in 1..Len(s) : s[i] \notin WhiteSpace}
    IN  IF keep = {} THEN <<>>
        ELSE LET lo == CHOOSE i \in keep : \A j \in keep : i <= j
                 hi == CHOOSE i \in keep : \A j \in keep : j <= i
             IN  SubSeq(s, lo, hi)

\* String.prototype.includes
includes(s, sub) ==
    \E i \in 0..(Len(s) - Len(sub)) : SubSeq(s, i + 1, i + Len(sub)) = sub

-----------------------------------------------------------------------------
(* config/index.js *)

\* the bug a reordering of the two tests would be: 2D is tested first
mapGameModeToCategory_2DFirst(m) ==
    IF Falsy(m) THEN "null"
    ELSE LET mode == trim(toLowerCase(m))
         IN  IF includes(mode, <<"2","d">>) \/ mode = <<"m","o","d","e","2","d">>
                  \/ mode = <<"2","d">>
             THEN "2D"
             ELSE IF includes(mode, <<"a","r">>) \/ mode = <<"m","o","d","e","a","r">>
                       \/ mode = <<"a","r">>
                  THEN "AR"
                  ELSE "null"

\* mapGameModeToCategory: 'AR', '2D' or null
mapGameModeToCategory(m) ==
    IF Falsy(m) THEN "null"
    ELSE LET mode == trim(toLowerCase(m))
         IN  IF includes(mode, <<"a","r">>) \/ mode = <<"m","o","d","e","a","r">>
                  \/ mode = <<"a","r">>
             THEN "AR"
             ELSE IF includes(mode, <<"2","d">>) \/ mode = <<"m","o","d","e","2","d">>
                       \/ mode = <<"2","d">>
                  THEN "2D"
                  ELSE "null"

-----------------------------------------------------------------------------
(* Helpers for Math.max / Math.min, Array.prototype.sort, Object.keys *)

NullNum == -1

SetMax(S) == CHOOSE x \in S : \A y \in S : y <= x

SetMin(S) == CHOOSE x \in S : \A y \in S : x <= y

Range(s) == {s[i] : i \in 1..Len(s)}

\* the positions of keys, ordered by ascending key; equal keys keep their
\* arrival order, as the stable Array.prototype.sort does
RECURSIVE InsertByKey(_, _, _)
InsertByKey(perm, i, keys) ==
    IF perm = <<>> THEN <<i>>
    ELSE IF keys[perm[Len(perm)]] <= keys[i] THEN Append(perm, i)
    ELSE Append(InsertByKey(SubSeq(perm, 1, Len(perm) - 1), i, keys), perm[Len(perm)])

RECURSIVE SortPerm(_, _)
SortPerm(keys, n) ==
    IF n = 0 THEN <<>> ELSE InsertByKey(SortPerm(keys, n - 1), n, keys)

\* the distinct values of s in the order of their first occurrence
\* (Object.keys / Object.values / Map iteration order for non-numeric keys)
RECURSIVE KeysInOrder(_)
KeysInOrder(s) ==
    IF s = <<>> THEN <<>>
    ELSE LET front == KeysInOrder(SubSeq(s, 1, Len(s) - 1))
             k     == s[Len(s)]
         IN  IF k \in Range(front) THEN front ELSE Append(front, k)

-----------------------------------------------------------------------------
(* Events and game validity (the same block opens every page) *)

\* item.game_reference && item.game_reference.trim() !== ''
HasGameReference(item) ==
    Truthy(item.game_reference) /\ trim(item.game_reference) # <<>>

\* eventsByGame[gameRef]
eventsByGame(d, gameRef) ==
    SelectSeq(d, LAMBDA item : HasGameReference(item) /\ item.game_reference = gameRef)

\* Object.keys(eventsByGame)
gameRefs(d) ==
    LET games == SelectSeq(d, HasGameReference)
    IN  KeysInOrder([i \in 1..Len(games) |-> games[i].game_reference])

\* gameEvents.find((e) => e.game_mode)?.game_mode || null
rawGameModeOf(gameEvents) ==
    LET withMode == {i \in 1..Len(gameEvents) : Truthy(gameEvents[i].game_mode)}
    IN  IF withMode = {} THEN JsNull ELSE gameEvents[SetMin(withMode)].game_mode

\* the bug of accepting either selection event whatever the mode
hasSimonSelect_AnyType(gameEvents) ==
    \E i \in 1..Len(gameEvents) :
        gameEvents[i].event_type \in {"simon_select", "simon_select_end"}

hasSimonSelect(gameEvents) ==
    LET isAR == mapGameModeToCategory(rawGameModeOf(gameEvents)) = "AR"
    IN  IF isAR
        THEN \E i \in 1..Len(gameEvents) : gameEvents[i].event_type = "simon_select_end"
        ELSE \E i \in 1..Len(gameEvents) : gameEvents[i].event_type = "simon_select"

gamesWithSimonSelect(d) ==
    {gameRef \in Range(gameRefs(d)) : hasSimonSelect(eventsByGame(d, gameRef))}

\* item.game_reference && ...trim() !== '' && gamesWithSimonSelect.has(item.game_reference)
InValidGame(d, item) ==
    HasGameReference(item) /\ item.game_reference \in gamesWithSimonSelect(d)

-----------------------------------------------------------------------------
(* pages/Dashboard.jsx *)

\* gameLevels of one game: the levels that are not null and > 0
dashboardGameLevels(gameEvents) ==
    {l \in {gameEvents[i].game_level : i \in 1..Len(gameEvents)} : l # NullNum /\ l > 0}

\* highestLevelsByMode[mode]: one maxLevel per valid game of that mode that
\* has a level > 0, in Object.keys order
highestLevelsByMode(d, mode) ==
    LET counted ==
            SelectSeq(gameRefs(d), LAMBDA gameRef :
                /\ gameRef \in gamesWithSimonSelect(d)
                /\ mapGameModeToCategory(rawGameModeOf(eventsByGame(d, gameRef))) = mode
                /\ dashboardGameLevels(eventsByGame(d, gameRef)) # {})
    IN  [k \in 1..Len(counted) |-> SetMax(dashboardGameLevels(eventsByGame(d, counted[k])))]

calculateStats(d) ==
    LET valid == gamesWithSimonSelect(d)
        playersWithGames ==
            {d[i].player_id : i \in {j \in 1..Len(d) :
                Truthy(d[j].player_id) /\ InValidGame(d, d[j])}}
        sessionKeys ==
            {d[i].session_id : i \in {j \in 1..Len(d) :
                Truthy(d[j].session_id) /\ InValidGame(d, d[j])}}
        gamesBySession ==
            [s \in sessionKeys |->
                {d[i].game_reference : i \in {j \in 1..Len(d) :
                    d[j].session_id = s /\ InValidGame(d, d[j])}}]
        gamesOfMode(mode) ==
            {g \in valid : mapGameModeToCategory(rawGameModeOf(eventsByGame(d, g))) = mode}
    IN  [ uniqueGames          |-> valid,
          uniqueSessions       |-> sessionKeys,
          uniquePlayers        |-> playersWithGames,
          totalGames           |-> Cardinality(valid),
          totalSessions        |-> Cardinality(sessionKeys),
          totalPlayers         |-> Cardinality(playersWithGames),
          totalGamesInSessions |-> Cardinality({<<s, g>> \in sessionKeys \X valid :
                                                      g \in gamesBySession[s]}),
          total2DGames         |-> Cardinality(gamesOfMode("2D")),
          totalARGames         |-> Cardinality(gamesOfMode("AR")),
          highestLevelsAR      |-> highestLevelsByMode(d, "AR"),
          highestLevels2D      |-> highestLevelsByMode(d, "2D") ]

-----------------------------------------------------------------------------
(* Response-time extraction.  The block below is repeated verbatim in      *)
(* DescriptiveAnalysis.analysisData, CorrelationAnalysis.processedData,    *)
(* RegressionAnalysis.processedData, InferentialStatistics.processedData   *)
(* and GameDetail.levelRows; indices are 1-based here.                     *)

\* [...gameEvents].sort((a, b) => new Date(a.event_at) - new Date(b.event_at))
sortedEventsOf(gameEvents) ==
    LET perm == SortPerm([i \in 1..Len(gameEvents) |-> gameEvents[i].event_at],
                         Len(gameEvents))
    IN  [k \in 1..Len(gameEvents) |-> gameEvents[perm[k]]]

RECURSIVE AscendingSeq(_)
AscendingSeq(S) ==
    IF S = {} THEN <<>> ELSE <<SetMin(S)>> \o AscendingSeq(S \ {SetMin(S)})

\* Object.keys(eventsByLevel): the integer keys in ascending order, then
\* 'unknown' (NullNum) when some event has no level
levelKeys(sortedEvents) ==
    LET present == {sortedEvents[i].game_level : i \in 1..Len(sortedEvents)}
    IN  AscendingSeq(present \ {NullNum})
        \o (IF NullNum \in present THEN <<NullNum>> ELSE <<>>)

\* eventsByLevel[level], each entry given by its originalIndex
eventsByLevel(sortedEvents, level) ==
    SelectSeq([i \in 1..Len(sortedEvents) |-> i],
              LAMBDA i : sortedEvents[i].game_level = level)

\* for (let i = levelEvents.length - 1; i >= 0; i--) if (type matches) break:
\* the originalIndex of lastSimonEvent, 0 when it stays null
RECURSIVE scanBackFor(_, _, _, _)
scanBackFor(sortedEvents, levelEvents, i, type) ==
    IF i = 0 THEN 0
    ELSE IF sortedEvents[levelEvents[i]].event_type = type THEN levelEvents[i]
    ELSE scanBackFor(sortedEvents, levelEvents, i - 1, type)

\* the bug of scanning the bucket from its front: the first Simon event
lastSimonIndexOf_First(sortedEvents, level, isAR) ==
    LET type == IF isAR THEN "simon_select_end" ELSE "simon_select"
        hits == {i \in 1..Len(sortedEvents) :
                    sortedEvents[i].game_level = level /\ sortedEvents[i].event_type = type}
    IN  IF hits = {} THEN 0 ELSE SetMin(hits)

lastSimonIndexOf(sortedEvents, level, isAR) ==
    LET levelEvents == eventsByLevel(sortedEvents, level)
    IN  scanBackFor(sortedEvents, levelEvents, Len(levelEvents),
                    IF isAR THEN "simon_select_end" ELSE "simon_select")

\* for (let i = lastSimonIndex + 1; ...) level_complete with game_level === currentLevel + 1
RECURSIVE firstLevelComplete(_, _, _)
firstLevelComplete(sortedEvents, i, nextLevel) ==
    IF i > Len(sortedEvents) THEN 0
    ELSE IF sortedEvents[i].event_type = "level_complete"
            /\ sortedEvents[i].game_level = nextLevel THEN i
    ELSE firstLevelComplete(sortedEvents, i + 1, nextLevel)

\* for (let i = lastSimonIndex + 1; ...) game_over
RECURSIVE firstGameOver(_, _)
firstGameOver(sortedEvents, i) ==
    IF i > Len(sortedEvents) THEN 0
    ELSE IF sortedEvents[i].event_type = "game_over" THEN i
    ELSE firstGameOver(sortedEvents, i + 1)

\* the bug of taking whichever end event comes first
endEventIndexOf_Earliest(sortedEvents, lastSimonIndex, currentLevel) ==
    LET lc == firstLevelComplete(sortedEvents, lastSimonIndex + 1, currentLevel + 1)
        go == firstGameOver(sortedEvents, lastSimonIndex + 1)
    IN  IF lc = 0 THEN go ELSE IF go = 0 THEN lc ELSE IF lc < go THEN lc ELSE go

\* endEvent: the level_complete of the next level, else the game_over; 0 for null
endEventIndexOf(sortedEvents, lastSimonIndex, currentLevel) ==
    LET lc == firstLevelComplete(sortedEvents, lastSimonIndex + 1, currentLevel + 1)
    IN  IF lc # 0 THEN lc ELSE firstGameOver(sortedEvents, lastSimonIndex + 1)

\* the bug of keeping a zero duration
keepsDuration_NonNegative(duration) == duration >= 0

\* if (duration > 0)
keepsDuration(duration) == duration > 0

\* what one level of one game pushes: <<>> or one sample.  responseTime is
\* durationMs / 1000; game, simonIndex and endIndex record where it came from
levelSample(sortedEvents, level, gameModeCategory) ==
    LET lastSimonIndex == lastSimonIndexOf(sortedEvents, level, gameModeCategory = "AR")
        endIndex == endEventIndexOf(sortedEvents, lastSimonIndex, level)
    IN  IF lastSimonIndex = 0 \/ endIndex = 0 THEN <<>>
        ELSE LET duration == sortedEvents[endIndex].event_at
                             - sortedEvents[lastSimonIndex].event_at
             IN  IF keepsDuration(duration)
                 THEN << [ game       |-> sortedEvents[lastSimonIndex].game_reference,
                           level      |-> level,
                           mode       |-> gameModeCategory,
                           durationMs |-> duration,
                           simonIndex |-> lastSimonIndex,
                           endIndex   |-> endIndex ] >>
                 ELSE <<>>

\* the bug of returning early for 'unknown' only
skipsLevel_UnknownOnly(level) == level = NullNum

\* if (level === 'unknown' || Number(level) <= 0) return
skipsLevel(level) == level = NullNum \/ level <= 0

\* Object.keys(eventsByLevel).forEach: 'unknown' and levels <= 0 return early
RECURSIVE samplesOfLevels(_, _, _)
samplesOfLevels(sortedEvents, keys, gameModeCategory) ==
    IF keys = <<>> THEN <<>>
    ELSE (IF skipsLevel(Head(keys)) THEN <<>>
          ELSE levelSample(sortedEvents, Head(keys), gameModeCategory))
         \o samplesOfLevels(sortedEvents, Tail(keys), gameModeCategory)

\* mapGameModeToCategory(rawGameMode) || 'Unknown', on the time-sorted game
sortedModeCategory(sortedEvents) ==
    LET c == mapGameModeToCategory(rawGameModeOf(sortedEvents))
    IN  IF c = "null" THEN "Unknown" ELSE c

gameSamples(gameEvents) ==
    LET sortedEvents == sortedEventsOf(gameEvents)
    IN  samplesOfLevels(sortedEvents, levelKeys(sortedEvents),
                        sortedModeCategory(sortedEvents))

\* Object.values(gamesMap).forEach over the valid games, in Object.keys order
RECURSIVE samplesOfGames(_, _)
samplesOfGames(d, refs) ==
    IF refs = <<>> THEN <<>>
    ELSE gameSamples(eventsByGame(d, Head(refs))) \o samplesOfGames(d, Tail(refs))

\* Object.keys(gamesMap)
validGameRefs(d) ==
    SelectSeq(gameRefs(d), LAMBDA gameRef : gameRef \in gamesWithSimonSelect(d))

\* "Track levels" and "Track max level reached": what one game pushes to
\* levels, the levels that pass the early return (if (currentLevel > 0)) in
\* Object.keys order, then the game's highest level above zero
levelsOfGame(gameEvents) ==
    LET sortedEvents == sortedEventsOf(gameEvents)
        gameLevels == {l \in {sortedEvents[i].game_level : i \in 1..Len(sortedEvents)} :
                          l # NullNum /\ l > 0}
    IN  SelectSeq(levelKeys(sortedEvents), LAMBDA level : ~skipsLevel(level) /\ level > 0)
        \o (IF gameLevels = {} THEN <<>> ELSE <<SetMax(gameLevels)>>)

\* levels (categories = every category) and levelsByMode[category]
RECURSIVE levelsOfGames(_, _, _)
levelsOfGames(d, refs, categories) ==
    IF refs = <<>> THEN <<>>
    ELSE (IF sortedModeCategory(sortedEventsOf(eventsByGame(d, Head(refs)))) \in categories
          THEN levelsOfGame(eventsByGame(d, Head(refs))) ELSE <<>>)
         \o levelsOfGames(d, Tail(refs), categories)

-----------------------------------------------------------------------------
(* pages/DescriptiveAnalysis.jsx *)

HasEventOfType(events, type) ==
    \E i \in 1..Len(events) : events[i].event_type = type

\* "Track game outcomes": the counter a game increments, "none" when the
\* if / else-if chain falls through
gameOutcomeOf(sortedEvents) ==
    IF HasEventOfType(sortedEvents, "game_over") THEN "Game Over"
    ELSE IF HasEventOfType(sortedEvents, "restart_game") THEN "Restarted"
    ELSE IF HasEventOfType(sortedEvents, "quit_application")
            \/ HasEventOfType(sortedEvents, "back_to_menu") THEN "Player Left"
    ELSE IF HasEventOfType(sortedEvents, "level_complete") THEN "Level Complete"
    ELSE "none"

\* uniqueSessions: the session ids of the events that carry a game_reference
descriptiveUniqueSessions(d) ==
    {d[i].session_id : i \in {j \in 1..Len(d) :
        Truthy(d[j].session_id) /\ HasGameReference(d[j])}}

\* Object.keys(sessionsMap): the truthy session ids in order of first arrival
sessionIdsOf(d) ==
    LET withSession == SelectSeq(d, LAMBDA item : Truthy(item.session_id))
    IN  KeysInOrder([i \in 1..Len(withSession) |-> withSession[i].session_id])

\* the event_at values of the events of a sequence
timesOf(events) == {events[i].event_at : i \in 1..Len(events)}

\* sessionsMap[session_id] of "Calculate session durations": startTime is
\* lowered by every event, endTime is raised only by events that carry a
\* game_reference and stays null without one
descriptiveSession(d, sessionId) ==
    LET events == SelectSeq(d, LAMBDA item : item.session_id = sessionId)
        gameEvents == SelectSeq(events, HasGameReference)
    IN  [ startTime |-> SetMin(timesOf(events)),
          endTime   |-> IF Len(gameEvents) = 0 THEN NullNum
                        ELSE SetMax(timesOf(gameEvents)) ]

\* sessionDurations, in ms (the code divides by 1000 and by 60): a session
\* is pushed when its endTime is set and its duration is positive
descriptiveSessionDurations(d) ==
    LET ids == sessionIdsOf(d)
        session(k) == descriptiveSession(d, ids[k])
        pushed == SelectSeq([k \in 1..Len(ids) |-> k], LAMBDA k :
                      /\ session(k).endTime # NullNum
                      /\ session(k).endTime - session(k).startTime > 0)
    IN  [j \in 1..Len(pushed) |->
            session(pushed[j]).endTime - session(pushed[j]).startTime]

analysisData(d) ==
    LET refs == validGameRefs(d)
        outcome(gameRef) == gameOutcomeOf(sortedEventsOf(eventsByGame(d, gameRef)))
    IN  [ samples         |-> samplesOfGames(d, refs),
          levels          |-> levelsOfGames(d, refs, {"AR", "2D", "Unknown"}),
          levelsByMode    |-> [c \in {"AR", "2D"} |-> levelsOfGames(d, refs, {c})],
          gameOutcomes    |->
              [o \in {"Game Over", "Level Complete", "Restarted", "Player Left"} |->
                  Cardinality({g \in Range(refs) : outcome(g) = o})],
          outcomeOfGame   |-> [g \in Range(refs) |-> outcome(g)],
          modeOfGame      |-> [g \in Range(refs) |->
              sortedModeCategory(sortedEventsOf(eventsByGame(d, g)))],
          sessionDurations |-> descriptiveSessionDurations(d),
          totalSessions   |-> Cardinality(descriptiveUniqueSessions(d)),
          uniqueSessions  |-> descriptiveUniqueSessions(d),
          totalValidGames |-> Cardinality(gamesWithSimonSelect(d)) ]

-----------------------------------------------------------------------------
(* pages/CorrelationAnalysis.jsx *)

\* sessionsMap[session_id]: games and maxLevel are fed by every event of the
\* session; playerId is that of the first event of the session
correlationSession(d, sessionId) ==
    LET events == SelectSeq(d, LAMBDA item : item.session_id = sessionId)
        levels == {l \in {events[i].game_level : i \in 1..Len(events)} :
                      l # NullNum /\ l > 0}
    IN  [ session_id |-> sessionId,
          playerId   |-> events[1].player_id,
          games      |-> {events[i].game_reference : i \in {j \in 1..Len(events) :
                              HasGameReference(events[j])}},
          startTime  |-> SetMin(timesOf(events)),
          endTime    |-> SetMax(timesOf(events)),
          maxLevel   |-> IF levels = {} THEN 0 ELSE SetMax(levels) ]

correlationSessionIds(d) == sessionIdsOf(d)

\* sessionDurationMaxLevelPairs, the duration in ms (the code divides by
\* 1000 and by 60): duration > 0 && session.maxLevel > 0
sessionDurationMaxLevelPairs(sessions) ==
    LET pushed == SelectSeq(sessions, LAMBDA session :
                      session.endTime - session.startTime > 0
                      /\ session.maxLevel > 0)
    IN  [j \in 1..Len(pushed) |->
            [ session_id      |-> pushed[j].session_id,
              sessionDuration |-> pushed[j].endTime - pushed[j].startTime,
              maxLevel        |-> pushed[j].maxLevel ]]

processedData(d) ==
    LET ids == correlationSessionIds(d)
    IN  [ responseTimeLevelPairs |-> samplesOfGames(d, validGameRefs(d)),
          sessionDurationMaxLevelPairs |-> sessionDurationMaxLevelPairs(
              [k \in 1..Len(ids) |-> correlationSession(d, ids[k])]),
          sessions |-> [k \in 1..Len(ids) |-> correlationSession(d, ids[k])] ]

-----------------------------------------------------------------------------
(* RegressionAnalysis.processedData *)

regressionData(d) ==
    [ simpleRegressionData |-> samplesOfGames(d, validGameRefs(d)) ]

-----------------------------------------------------------------------------
(* InferentialStatistics.processedData *)

\* responseTimesByLevel: { level: [times] }, a key for every level that
\* pushed a sample, the times in ms in the order they were pushed
responseTimesByLevel(samples) ==
    [level \in {samples[i].level : i \in 1..Len(samples)} |->
        LET pushed == SelectSeq(samples, LAMBDA sample : sample.level = level)
        IN  [j \in 1..Len(pushed) |-> pushed[j].durationMs]]

\* responseTimesAR / responseTimes2D
responseTimesOfMode(samples, gameModeCategory) ==
    LET pushed == SelectSeq(samples, LAMBDA sample : sample.mode = gameModeCategory)
    IN  [j \in 1..Len(pushed) |-> pushed[j].durationMs]

\* gameOutcomesByMode is left out
inferentialData(d) ==
    LET samples == samplesOfGames(d, validGameRefs(d))
    IN  [ responseTimesAR      |-> responseTimesOfMode(samples, "AR"),
          responseTimes2D      |-> responseTimesOfMode(samples, "2D"),
          responseTimesByLevel |-> responseTimesByLevel(samples) ]

-----------------------------------------------------------------------------
(* pages/PlayersList.jsx *)

Unknown == <<"U","n","k","n","o","w","n">>

\* item.player_id || 'Unknown'
playerKey(item) == IF Truthy(item.player_id) THEN item.player_id ELSE Unknown

\* arScores / twoDScores: the levels of the player's events whose own
\* game_mode maps to the category
playerScores(events, cat) ==
    LET scored == SelectSeq(events, LAMBDA item :
                      item.game_level # NullNum
                      /\ mapGameModeToCategory(item.game_mode) = cat)
    IN  [i \in 1..Len(scored) |-> scored[i].game_level]

\* scores.length > 0 ? Math.max(...scores) : null
highestLevelOf(scores) ==
    IF Len(scores) > 0 THEN SetMax(Range(scores)) ELSE NullNum

\* scoresExcludingZero.length > 0 ? Math.min(...scoresExcludingZero) : null
lowestLevelOf(scores) ==
    LET excludingZero == {x \in Range(scores) : x > 0}
    IN  IF excludingZero # {} THEN SetMin(excludingZero) ELSE NullNum

\* player.sessions.get(session_id): startTime and endTime follow every event
\* of the player in the session
playerSession(events, sessionId) ==
    LET sessionEvents == SelectSeq(events, LAMBDA item : item.session_id = sessionId)
    IN  [ startTime |-> SetMin(timesOf(sessionEvents)),
          endTime   |-> SetMax(timesOf(sessionEvents)) ]

\* sessionDurations: map(duration > 0 ? duration : 0).filter(d => d > 0)
playerSessionDurations(events) ==
    LET ids == sessionIdsOf(events)
        duration(k) == playerSession(events, ids[k]).endTime
                       - playerSession(events, ids[k]).startTime
        kept == SelectSeq([k \in 1..Len(ids) |-> k], LAMBDA k : duration(k) > 0)
    IN  [j \in 1..Len(kept) |-> duration(kept[j])]

\* sessionDurations.length > 0 ? Math.max(...sessionDurations) : null
longestSessionOf(durations) ==
    IF Len(durations) > 0 THEN SetMax(Range(durations)) ELSE NullNum

\* sessionDurations.length > 0 ? Math.min(...sessionDurations) : null
shortestSessionOf(durations) ==
    IF Len(durations) > 0 THEN SetMin(Range(durations)) ELSE NullNum

playerRow(d, playerId) ==
    LET events == SelectSeq(d, LAMBDA item : playerKey(item) = playerId)
        sessions == {events[i].session_id : i \in {j \in 1..Len(events) :
                        Truthy(events[j].session_id)}}
        games == {events[i].game_reference : i \in {j \in 1..Len(events) :
                        InValidGame(d, events[j])}}
    IN  [ player_id      |-> playerId,
          events         |-> events,
          sessionIds     |-> sessions,
          games          |-> games,
          sessionCount   |-> Cardinality(sessions),
          gameCount      |-> Cardinality(games),
          highestLevelAR |-> highestLevelOf(playerScores(events, "AR")),
          lowestLevelAR  |-> lowestLevelOf(playerScores(events, "AR")),
          highestLevel2D |-> highestLevelOf(playerScores(events, "2D")),
          lowestLevel2D  |-> lowestLevelOf(playerScores(events, "2D")),
          longestSession  |-> longestSessionOf(playerSessionDurations(events)),
          shortestSession |-> shortestSessionOf(playerSessionDurations(events)) ]

\* playersArray.filter((player) => player.gameCount > 0)
keepsPlayer(player) == player.gameCount > 0

processPlayersData(d) ==
    LET ids == KeysInOrder([i \in 1..Len(d) |-> playerKey(d[i])])
        playersArray == [k \in 1..Len(ids) |-> playerRow(d, ids[k])]
        playersWithGames == SelectSeq(playersArray, keepsPlayer)
        \* sort((a, b) => b.gameCount - a.gameCount)
        perm == SortPerm([k \in 1..Len(playersWithGames) |->
                              0 - playersWithGames[k].gameCount],
                         Len(playersWithGames))
    IN  [k \in 1..Len(playersWithGames) |-> playersWithGames[perm[k]]]

-----------------------------------------------------------------------------
(* components/PlayerDetail, components/SessionDetail.jsx *)

\* event.session_id || 'Unknown'
sessionKey(event) == IF Truthy(event.session_id) THEN event.session_id ELSE Unknown

\* PlayerDetail.sessionsData: validity is judged on player.events alone
sessionsData(playerEvents) ==
    LET ids == KeysInOrder([i \in 1..Len(playerEvents) |-> sessionKey(playerEvents[i])])
        session(id) ==
            LET events == SelectSeq(playerEvents, LAMBDA e : sessionKey(e) = id)
                games == {events[i].game_reference : i \in {j \in 1..Len(events) :
                              InValidGame(playerEvents, events[j])}}
            IN  [ session_id |-> id,
                  events     |-> events,
                  games      |-> games,
                  gameCount  |-> Cardinality(games) ]
    IN  [k \in 1..Len(ids) |-> session(ids[k])]

\* SessionDetail: Game Over > Restarted > Player Left, 'Unknown' otherwise
gameStatusOf(sortedEvents) ==
    IF HasEventOfType(sortedEvents, "game_over") THEN "Game Over"
    ELSE IF HasEventOfType(sortedEvents, "restart_game") THEN "Restarted"
    ELSE IF HasEventOfType(sortedEvents, "quit_application")
            \/ HasEventOfType(sortedEvents, "back_to_menu") THEN "Player Left"
    ELSE "Unknown"

\* SessionDetail.gamesData: the games of session.events that have their
\* Simon selection event among the events of this session
gamesData(sessionEvents) ==
    LET refs == gameRefs(sessionEvents)
        sortedOf(gameRef) == sortedEventsOf(eventsByGame(sessionEvents, gameRef))
        kept == SelectSeq(refs, LAMBDA gameRef : hasSimonSelect(sortedOf(gameRef)))
        levelsOf(gameRef) ==
            {l \in {sortedOf(gameRef)[i].game_level : i \in 1..Len(sortedOf(gameRef))} :
                l # NullNum}
    IN  [k \in 1..Len(kept) |->
            [ game_reference |-> kept[k],
              events         |-> eventsByGame(sessionEvents, kept[k]),
              gameMode       |-> LET c == mapGameModeToCategory(
                                              rawGameModeOf(sortedOf(kept[k])))
                                 IN  IF c = "null" THEN "N/A" ELSE c,
              maxLevel       |-> IF levelsOf(kept[k]) = {} THEN NullNum
                                 ELSE SetMax(levelsOf(kept[k])),
              gameStatus     |-> gameStatusOf(sortedOf(kept[k])) ]]

-----------------------------------------------------------------------------
(* JavaScript numbers of the statistics functions *)

Abs(n) == IF n < 0 THEN -n ELSE n

RECURSIVE GCD(_, _)
GCD(a, b) == IF b = 0 THEN a ELSE GCD(b, a % b)

\* the number n / d (d >= 0), in lowest terms; a division by zero gives NaN
\* (0 / 0) or an infinity
Rat(n, d) ==
    IF d = 0 THEN [num |-> IF n > 0 THEN 1 ELSE IF n < 0 THEN -1 ELSE 0, den |-> 0]
    ELSE LET g == GCD(Abs(n), d)
         IN  [num |-> n \div g, den |-> d \div g]

Num(n) == [num |-> n, den |-> 1]

NaN == [num |-> 0, den |-> 0]

Infinity == [num |-> 1, den |-> 0]

\* what reading past the end of an array yields
Undefined == [undefined |-> TRUE]

\* the null a function returns
Null == [null |-> TRUE]

\* !isNaN(v) && isFinite(v)
isFiniteNumber(v) == v.den # 0

RatAdd(a, b) == Rat(a.num * b.den + b.num * a.den, a.den * b.den)

RatSub(a, b) == Rat(a.num * b.den - b.num * a.den, a.den * b.den)

RatMul(a, b) == Rat(a.num * b.num, a.den * b.den)

RatDiv(a, b) ==
    IF b.num >= 0 THEN Rat(a.num * b.den, a.den * b.num)
    ELSE Rat(-(a.num * b.den), a.den * (-b.num))

RatLess(a, b) == a.num * b.den < b.num * a.den

RatLeq(a, b) == a.num * b.den <= b.num * a.den

\* Math.floor, Math.ceil
Floor(a) == a.num \div a.den

Ceil(a) == -((-a.num) \div a.den)

\* arr[i] of a JavaScript array (0-based); undefined outside it
At(arr, i) == IF i \in 0..(Len(arr) - 1) THEN arr[i + 1] ELSE Undefined

\* [...validValues].sort((a, b) => a - b)
RECURSIVE InsertNumber(_, _)
InsertNumber(sorted, v) ==
    IF sorted = <<>> THEN <<v>>
    ELSE IF RatLeq(sorted[Len(sorted)], v) THEN Append(sorted, v)
    ELSE Append(InsertNumber(SubSeq(sorted, 1, Len(sorted) - 1), v), sorted[Len(sorted)])

RECURSIVE sortNumbers(_)
sortNumbers(values) ==
    IF values = <<>> THEN <<>>
    ELSE InsertNumber(sortNumbers(SubSeq(values, 1, Len(values) - 1)),
                      values[Len(values)])

\* values.filter(v => !isNaN(v) && isFinite(v))
validValuesOf(values) == SelectSeq(values, isFiniteNumber)

\* Math.min(...validValues), Math.max(...validValues)
MathMin(values) == sortNumbers(values)[1]

MathMax(values) == sortNumbers(values)[Len(values)]

-----------------------------------------------------------------------------
(* Statistical utility functions of pages/DescriptiveAnalysis.jsx *)

calculateMedian(values) ==
    IF Len(values) = 0 THEN Num(0)
    ELSE IF Len(validValuesOf(values)) = 0 THEN Num(0)
    ELSE LET sorted == sortNumbers(validValuesOf(values))
             mid    == Len(sorted) \div 2
         IN  IF Len(sorted) % 2 = 0
             THEN RatDiv(RatAdd(At(sorted, mid - 1), At(sorted, mid)), Num(2))
             ELSE At(sorted, mid)

\* a property key that is an array index: a non-negative integer (below
\* 2^32 - 1, which every number of the model is); Object.keys lists these
\* first, in ascending numeric order
isArrayIndex(v) == v.den = 1 /\ v.num >= 0

\* Object.keys(frequency): the array-index keys ascending, then the other
\* keys in the order they were first assigned
frequencyKeys(validValues) ==
    LET keys == KeysInOrder(validValues)
    IN  sortNumbers(SelectSeq(keys, isArrayIndex))
        \o SelectSeq(keys, LAMBDA k : ~isArrayIndex(k))

\* frequency[key]
frequencyOf(validValues, key) ==
    Cardinality({i \in 1..Len(validValues) : validValues[i] = key})

\* Object.keys(frequency).forEach: a key replaces the mode only when its
\* frequency is strictly above the highest seen so far
RECURSIVE modeScan(_, _, _, _)
modeScan(validValues, keys, maxFreq, mode) ==
    IF keys = <<>> THEN mode
    ELSE IF frequencyOf(validValues, Head(keys)) > maxFreq
         THEN modeScan(validValues, Tail(keys),
                       frequencyOf(validValues, Head(keys)), Head(keys))
         ELSE modeScan(validValues, Tail(keys), maxFreq, mode)

calculateMode(values) ==
    IF Len(values) = 0 THEN Null
    ELSE IF Len(validValuesOf(values)) = 0 THEN Null
    ELSE modeScan(validValuesOf(values), frequencyKeys(validValuesOf(values)), 0, Null)

\* the bug of truncating instead of taking the ceiling less one
percentileIndex_Floor(percentile, length) ==
    Floor(RatMul(RatDiv(percentile, Num(100)), Num(length)))

\* Math.ceil((percentile / 100) * sorted.length) - 1
percentileIndex(percentile, length) ==
    Ceil(RatMul(RatDiv(percentile, Num(100)), Num(length))) - 1

calculatePercentile(values, percentile) ==
    IF Len(values) = 0 THEN Num(0)
    ELSE IF Len(validValuesOf(values)) = 0 THEN Num(0)
    ELSE LET sorted == sortNumbers(validValuesOf(values))
             index  == percentileIndex(percentile, Len(sorted))
         IN  At(sorted, IF 0 >= index THEN 0 ELSE index)

\* the bug of leaving out the clamp to the last bin
binIndexOf_Unclamped(val, min, binWidth, bins) ==
    Floor(RatDiv(RatSub(val, min), binWidth))

\* Math.min(Math.floor((val - min) / binWidth), bins - 1)
binIndexOf(val, min, binWidth, bins) ==
    LET raw == Floor(RatDiv(RatSub(val, min), binWidth))
    IN  IF raw <= bins - 1 THEN raw ELSE bins - 1

\* createHistogramData(values, bins): the bins with their count, min and
\* max (the range label is the two bounds printed with toFixed(1))
createHistogramData(values, bins) ==
    IF Len(values) = 0 THEN <<>>
    ELSE IF Len(validValuesOf(values)) = 0 THEN <<>>
    ELSE LET validValues == validValuesOf(values)
             min == MathMin(validValues)
             max == MathMax(validValues)
             binWidth == RatDiv(RatSub(max, min), Num(bins))
             counted(i) == {k \in 1..Len(validValues) :
                              LET binIndex == binIndexOf(validValues[k], min, binWidth, bins)
                              IN  binIndex >= 0 /\ binIndex < bins /\ binIndex = i}
         IN  IF min = max
             THEN << [count |-> Len(validValues), min |-> min, max |-> max] >>
             ELSE [j \in 1..bins |->
                     [ count |-> Cardinality(counted(j - 1)),
                       min   |-> RatAdd(min, RatMul(Num(j - 1), binWidth)),
                       max   |-> RatAdd(min, RatMul(Num(j), binWidth)) ]]

-----------------------------------------------------------------------------
(* Correlation functions of pages/CorrelationAnalysis.jsx *)

\* validValues.reduce((acc, val) => acc + val, 0)
RECURSIVE sumOf(_)
sumOf(values) ==
    IF values = <<>> THEN Num(0)
    ELSE RatAdd(sumOf(SubSeq(values, 1, Len(values) - 1)), values[Len(values)])

calculateMean(values) ==
    IF Len(values) = 0 THEN Num(0)
    ELSE IF Len(validValuesOf(values)) = 0 THEN Num(0)
    ELSE RatDiv(sumOf(validValuesOf(values)), Num(Len(validValuesOf(values))))

\* calculateStdDev returns Math.sqrt(variance); the model keeps the variance,
\* the square of what is returned (a square root is zero exactly when its
\* argument is)
stdDevSquared(values) ==
    IF Len(values) = 0 THEN Num(0)
    ELSE IF Len(validValuesOf(values)) = 0 THEN Num(0)
    ELSE LET validValues == validValuesOf(values)
             mean == calculateMean(validValues)
             squaredDiffs == [i \in 1..Len(validValues) |->
                                 RatMul(RatSub(validValues[i], mean),
                                        RatSub(validValues[i], mean))]
         IN  calculateMean(squaredDiffs)

\* !isNaN(x[i]) && !isNaN(y[i]) && isFinite(x[i]) && isFinite(y[i])
isValidPair(xi, yi) == isFiniteNumber(xi) /\ isFiniteNumber(yi)

\* validPairs: the positions i whose x[i] and y[i] are both kept
validPairsOf(x, y) ==
    SelectSeq([i \in 1..Len(x) |-> i], LAMBDA i : isValidPair(x[i], y[i]))

\* the bug of testing the first series only
zeroVariance_FirstOnly(stdDevXSquared, stdDevYSquared) ==
    stdDevXSquared = Num(0)

\* stdDevX === 0 || stdDevY === 0
zeroVariance(stdDevXSquared, stdDevYSquared) ==
    stdDevXSquared = Num(0) \/ stdDevYSquared = Num(0)

\* a real number known by its sign and its square (a correlation
\* coefficient is covariance / sqrt(varX * varY))
SignedRoot(sign, squared) == [sign |-> sign, squared |-> squared]

Sign(a) == IF a.num > 0 THEN 1 ELSE IF a.num < 0 THEN -1 ELSE 0

\* covariance / (stdDevX * stdDevY)
correlationOf(xValues, yValues) ==
    LET meanX == calculateMean(xValues)
        meanY == calculateMean(yValues)
        products == [i \in 1..Len(xValues) |->
                        RatMul(RatSub(xValues[i], meanX), RatSub(yValues[i], meanY))]
        covariance == RatDiv(sumOf(products), Num(Len(xValues)))
    IN  SignedRoot(Sign(covariance),
                   RatDiv(RatMul(covariance, covariance),
                          RatMul(stdDevSquared(xValues), stdDevSquared(yValues))))

\* the square of t = correlation * Math.sqrt((n - 2) / (1 - correlation^2));
\* NaN for 0 / 0, Infinity for a division of a positive number by zero
tSquaredOf(correlation, n) ==
    LET ratio == RatDiv(Num(n - 2), RatSub(Num(1), correlation.squared))
    IN  IF ~isFiniteNumber(ratio) THEN ratio
        ELSE RatMul(correlation.squared, ratio)

\* pValue = 2 * (1 - tCDF(Math.abs(t), df)) with tCDF(t, df) = 0.5 for
\* df <= 0 and normalCDF(t / Math.sqrt(df)) otherwise: 1 for df <= 0, 0 for
\* an infinite t, and otherwise the two-sided normal tail beyond the z whose
\* square is t^2 / df, kept as that square
pValueOf(tSquared, df) ==
    IF df <= 0 THEN [exact |-> Num(1)]
    ELSE IF tSquared = Infinity THEN [exact |-> Num(0)]
    ELSE [tailBeyondSquared |-> RatDiv(tSquared, Num(df))]

\* pValue < 0.05: the two-sided normal tail is below 0.05 beyond z = 1.96
below005(pValue) ==
    IF "exact" \in DOMAIN pValue THEN RatLess(pValue.exact, Rat(5, 100))
    ELSE RatLess(Rat(38415, 10000), pValue.tailBeyondSquared)

\* getCorrelationStrength(Math.abs(correlation)), the thresholds squared
getCorrelationStrength(correlation) ==
    IF RatLeq(Rat(81, 100), correlation.squared) THEN "Very Strong"
    ELSE IF RatLeq(Rat(49, 100), correlation.squared) THEN "Strong"
    ELSE IF RatLeq(Rat(25, 100), correlation.squared) THEN "Moderate"
    ELSE IF RatLeq(Rat(9, 100), correlation.squared) THEN "Weak"
    ELSE "Very Weak"

calculatePearsonCorrelation(x, y) ==
    IF Len(x) # Len(y) \/ Len(x) < 2
    THEN [error |-> "Insufficient data for Pearson correlation (need at least 2 pairs)"]
    ELSE LET validPairs == validPairsOf(x, y)
             xValues == [k \in 1..Len(validPairs) |-> x[validPairs[k]]]
             yValues == [k \in 1..Len(validPairs) |-> y[validPairs[k]]]
             correlation == correlationOf(xValues, yValues)
             n == Len(validPairs)
             pValue == pValueOf(tSquaredOf(correlation, n), n - 2)
         IN  IF Len(validPairs) < 2
             THEN [error |-> "Insufficient valid data for Pearson correlation"]
             ELSE IF zeroVariance(stdDevSquared(xValues), stdDevSquared(yValues))
             THEN [error |-> "Cannot calculate correlation: one or both variables have zero variance"]
             ELSE [ correlation |-> correlation,
                    pValue      |-> pValue,
                    n           |-> n,
                    significant |-> below005(pValue),
                    strength    |-> getCorrelationStrength(correlation) ]

\* values.map((val, index) => ({ val, index })).sort((a, b) => a.val - b.val):
\* the indices ordered by ascending value, equal values in arrival order
RECURSIVE InsertIndexByValue(_, _, _)
InsertIndexByValue(perm, i, values) ==
    IF perm = <<>> THEN <<i>>
    ELSE IF RatLeq(values[perm[Len(perm)]], values[i]) THEN Append(perm, i)
    ELSE Append(InsertIndexByValue(SubSeq(perm, 1, Len(perm) - 1), i, values),
                perm[Len(perm)])

RECURSIVE sortedIndices(_, _)
sortedIndices(values, n) ==
    IF n = 0 THEN <<>>
    ELSE InsertIndexByValue(sortedIndices(values, n - 1), n, values)

\* the bug of never carrying the rank over to an equal value
currentRankAt_Position(values, sorted, i) == i

\* currentRank when the loop reaches position i of sorted: i when the value
\* differs from the one before, else the rank of the position before
RECURSIVE currentRankAt(_, _, _)
currentRankAt(values, sorted, i) ==
    IF i = 1 THEN 1
    ELSE IF values[sorted[i]] # values[sorted[i - 1]] THEN i
    ELSE currentRankAt(values, sorted, i - 1)

\* ranks[sorted[i].index] = currentRank
rankValues(values) ==
    LET sorted == sortedIndices(values, Len(values))
    IN  [index \in 1..Len(values) |->
            currentRankAt(values, sorted,
                          CHOOSE i \in 1..Len(sorted) : sorted[i] = index)]

-----------------------------------------------------------------------------
(* performChiSquare (inferential statistics) *)

\* observed is a sequence of rows, one per category in Object.keys order;
\* a row maps group names to counts. Of the record returned, the residuals
\* (observed - expected per cell) are not kept.

GroupNames == <<"g1", "g2", "g3">>

\* Object.keys(observed[categories[0]])
groupsOf(observed) == SelectSeq(GroupNames, LAMBDA g : g \in DOMAIN observed[1])

\* observed[cat][group] || 0
cellOf(observed, cat, group) ==
    IF group \in DOMAIN observed[cat] THEN observed[cat][group] ELSE 0

RECURSIVE SumInts(_)
SumInts(s) == IF s = <<>> THEN 0 ELSE Head(s) + SumInts(Tail(s))

rowTotalOf(observed, groups, cat) ==
    SumInts([k \in 1..Len(groups) |-> cellOf(observed, cat, groups[k])])

colTotalOf(observed, group) ==
    SumInts([cat \in 1..Len(observed) |-> cellOf(observed, cat, group)])

grandTotalOf(observed, groups) ==
    SumInts([cat \in 1..Len(observed) |-> rowTotalOf(observed, groups, cat)])

\* the bug of spreading a row evenly over the groups
expectedValueOf_EvenShare(rowTotal, colTotal, grandTotal, groupCount) ==
    Rat(rowTotal, groupCount)

\* (rowTotals[cat] * colTotals[group]) / grandTotal
expectedValueOf(rowTotal, colTotal, grandTotal, groupCount) ==
    Rat(rowTotal * colTotal, grandTotal)

\* Math.pow(residual, 2) / expectedValue, for the cells with expectedValue > 0
chiSquareTerm(observedValue, expectedValue) ==
    IF RatLess(Num(0), expectedValue)
    THEN RatDiv(RatMul(RatSub(Num(observedValue), expectedValue),
                       RatSub(Num(observedValue), expectedValue)),
                expectedValue)
    ELSE Num(0)

\* pValue = 1 - chiSquareCDF(chiSquare, df): chiSquareCDF is 0 for x <= 0,
\* else normalCDF(Math.sqrt(2 * x) - Math.sqrt(2 * df - 1)); kept as the
\* statistic and the degrees of freedom it is the upper tail of
chiSquarePValue(chiSquare, df) ==
    IF RatLeq(chiSquare, Num(0)) THEN [exact |-> Num(1)]
    ELSE [upperTailOf |-> chiSquare, df |-> df]

\* Math.sqrt(k) in units of 1/200, rounded down
SqrtTimes200(k) ==
    CHOOSE r \in 0..(200 * k) : r * r <= 40000 * k /\ (r + 1) * (r + 1) > 40000 * k

\* pValue < 0.05: the normal upper tail is below 0.05 beyond z = 1.645, so
\* Math.sqrt(2 * x) > 1.645 + Math.sqrt(2 * df - 1), both sides squared
chiSquareBelow005(pValue) ==
    IF "exact" \in DOMAIN pValue THEN RatLess(pValue.exact, Rat(5, 100))
    ELSE LET bound == 329 + SqrtTimes200(2 * pValue.df - 1)
         IN  RatLess(Rat(bound * bound, 80000), pValue.upperTailOf)

performChiSquare(observed) ==
    IF Len(observed) < 2
    THEN [error |-> "Chi-square test requires at least 2 categories"]
    ELSE IF Len(groupsOf(observed)) < 2
    THEN [error |-> "Chi-square test requires at least 2 groups"]
    ELSE LET groups == groupsOf(observed)
             grandTotal == grandTotalOf(observed, groups)
             expected == [cat \in 1..Len(observed) |-> [k \in 1..Len(groups) |->
                             expectedValueOf(rowTotalOf(observed, groups, cat),
                                             colTotalOf(observed, groups[k]),
                                             grandTotal, Len(groups))]]
             terms == [cat \in 1..Len(observed) |->
                          sumOf([k \in 1..Len(groups) |->
                              chiSquareTerm(cellOf(observed, cat, groups[k]),
                                            expected[cat][k])])]
             chiSquare == sumOf(terms)
             df == (Len(observed) - 1) * (Len(groups) - 1)
             pValue == chiSquarePValue(chiSquare, df)
         IN  IF grandTotal = 0
             THEN [error |-> "No data for chi-square test"]
             ELSE [ chiSquare        |-> chiSquare,
                    degreesOfFreedom |-> df,
                    pValue           |-> pValue,
                    expected         |-> expected,
                    observed         |-> observed,
                    significant      |-> chiSquareBelow005(pValue) ]

-----------------------------------------------------------------------------
(* performSimpleLinearRegression (RegressionAnalysis) *)

\* the bug of reporting a perfect fit when y does not vary
rSquaredOf_OneWhenFlat(ssRes, ssTot) ==
    IF ssTot = Num(0) THEN Num(1) ELSE RatSub(Num(1), RatDiv(ssRes, ssTot))

\* ssTot === 0 ? 0 : 1 - (ssRes / ssTot)
rSquaredOf(ssRes, ssTot) ==
    IF ssTot = Num(0) THEN Num(0) ELSE RatSub(Num(1), RatDiv(ssRes, ssTot))

\* Of the record returned, intercept, slope, rSquared, n and predictedLine
\* are kept; the standard errors, t statistics and p-values computed from
\* them are not.
performSimpleLinearRegression(x, y) ==
    IF Len(x) # Len(y) \/ Len(x) < 2
    THEN [error |-> "Insufficient data for regression (need at least 2 pairs)"]
    ELSE LET validPairs == validPairsOf(x, y)
             n == Len(validPairs)
             xs == [k \in 1..n |-> x[validPairs[k]]]
             ys == [k \in 1..n |-> y[validPairs[k]]]
             meanX == calculateMean(xs)
             meanY == calculateMean(ys)
             numerator == sumOf([k \in 1..n |->
                              RatMul(RatSub(xs[k], meanX), RatSub(ys[k], meanY))])
             denominator == sumOf([k \in 1..n |->
                              RatMul(RatSub(xs[k], meanX), RatSub(xs[k], meanX))])
             slope == RatDiv(numerator, denominator)
             intercept == RatSub(meanY, RatMul(slope, meanX))
             predicted(v) == RatAdd(intercept, RatMul(slope, v))
             ssRes == sumOf([k \in 1..n |->
                          RatMul(RatSub(ys[k], predicted(xs[k])),
                                 RatSub(ys[k], predicted(xs[k])))])
             ssTot == sumOf([k \in 1..n |->
                          RatMul(RatSub(ys[k], meanY), RatSub(ys[k], meanY))])
         IN  IF n < 2
             THEN [error |-> "Insufficient valid data for regression"]
             ELSE IF denominator = Num(0)
             THEN [error |-> "Cannot calculate regression: X variable has zero variance"]
             ELSE [ intercept |-> intercept,
                    slope     |-> slope,
                    rSquared  |-> rSquaredOf(ssRes, ssTot),
                    n         |-> n,
                    predictedLine |->
                        << [x |-> MathMin(xs), y |-> predicted(MathMin(xs))],
                           [x |-> MathMax(xs), y |-> predicted(MathMax(xs))] >> ]

-----------------------------------------------------------------------------
(* performPairedTTest (pages/InferentialStatistics.jsx) *)

\* the bug of keeping a pair whose 2D value is null
bothPresent_AROnly(pair, arKey, twoDKey) == pair[arKey] # Null

\* p[arKey] !== null && p[twoDKey] !== null
bothPresent(pair, arKey, twoDKey) == pair[arKey] # Null /\ pair[twoDKey] # Null

\* pairs.filter(...).map(p => p[arKey] - p[twoDKey]); a null operand of a
\* subtraction counts as 0
differencesOf(pairs, arKey, twoDKey) ==
    LET kept == SelectSeq(pairs, LAMBDA pair : bothPresent(pair, arKey, twoDKey))
    IN  [k \in 1..Len(kept) |->
            IF kept[k][twoDKey] = Null THEN kept[k][arKey]
            ELSE RatSub(kept[k][arKey], kept[k][twoDKey])]

\* calculateMean(pairs.map(p => p[key]).filter(v => v !== null))
meanOfPresent(pairs, key) ==
    LET present == SelectSeq(pairs, LAMBDA pair : pair[key] # Null)
    IN  calculateMean([k \in 1..Len(present) |-> present[k][key]])

\* stdDevDiff, stdErr = stdDevDiff / Math.sqrt(n) and t = meanDiff / stdErr
\* are kept by sign and square
performPairedTTest(pairs, arKey, twoDKey) ==
    LET differences == differencesOf(pairs, arKey, twoDKey)
        meanDiff == calculateMean(differences)
        stdDevDiffSquared == stdDevSquared(differences)
        n == Len(differences)
        stdErrSquared == RatDiv(stdDevDiffSquared, Num(n))
        t == SignedRoot(Sign(meanDiff),
                        RatDiv(RatMul(meanDiff, meanDiff), stdErrSquared))
        df == n - 1
        pValue == pValueOf(t.squared, df)
    IN  IF Len(differences) < 2
        THEN [error |-> "Insufficient data for paired t-test (need at least 2 pairs)"]
        ELSE IF stdDevDiffSquared = Num(0)
        THEN [error |-> "Cannot calculate t-test: standard deviation of differences is zero"]
        ELSE [ tStatistic       |-> t,
               degreesOfFreedom |-> df,
               pValue           |-> pValue,
               meanDifference   |-> meanDiff,
               stdDevDifference |-> SignedRoot(1, stdDevDiffSquared),
               stdErr           |-> SignedRoot(1, stdErrSquared),
               n                |-> n,
               significant      |-> below005(pValue),
               arMean           |-> meanOfPresent(pairs, arKey),
               twoDMean         |-> meanOfPresent(pairs, twoDKey) ]

-----------------------------------------------------------------------------
(* One-way ANOVA of pages/DescriptiveAnalysis.jsx; groups is the object of
   value arrays in the order of Object.keys *)

\* Object.keys(groups).filter(key => values && values.length >= 2)
groupKeysOf(groups) ==
    SelectSeq([k \in 1..Len(groups) |-> k], LAMBDA key : Len(groups[key]) >= 2)

\* the keys forEach gives a groupMeans and a groupSizes entry to
hasValidValues(groups, key) == Len(validValuesOf(groups[key])) > 0

\* totalSum and totalCount after the first forEach over groupKeys
RECURSIVE totalSumOf(_, _)
totalSumOf(groups, keys) ==
    IF keys = <<>> THEN Num(0)
    ELSE RatAdd(totalSumOf(groups, SubSeq(keys, 1, Len(keys) - 1)),
                sumOf(validValuesOf(groups[keys[Len(keys)]])))

RECURSIVE totalCountOf(_, _)
totalCountOf(groups, keys) ==
    IF keys = <<>> THEN 0
    ELSE totalCountOf(groups, SubSeq(keys, 1, Len(keys) - 1))
         + Len(validValuesOf(groups[keys[Len(keys)]]))

\* ssb += n * Math.pow(mean - grandMean, 2); a key without valid values has
\* neither a size nor a mean, and undefined * NaN is NaN
RECURSIVE ssbOf(_, _, _)
ssbOf(groups, keys, grandMean) ==
    IF keys = <<>> THEN Num(0)
    ELSE LET key  == keys[Len(keys)]
             mean == calculateMean(validValuesOf(groups[key]))
             diff == RatSub(mean, grandMean)
         IN  RatAdd(ssbOf(groups, SubSeq(keys, 1, Len(keys) - 1), grandMean),
                    IF hasValidValues(groups, key)
                    THEN RatMul(Num(Len(validValuesOf(groups[key]))), RatMul(diff, diff))
                    ELSE NaN)

\* values.forEach(val => ssw += Math.pow(val - mean, 2))
RECURSIVE squaresAround(_, _)
squaresAround(values, mean) ==
    IF values = <<>> THEN Num(0)
    ELSE LET diff == RatSub(values[Len(values)], mean)
         IN  RatAdd(squaresAround(SubSeq(values, 1, Len(values) - 1), mean),
                    RatMul(diff, diff))

RECURSIVE sswOf(_, _)
sswOf(groups, keys) ==
    IF keys = <<>> THEN Num(0)
    ELSE LET values == validValuesOf(groups[keys[Len(keys)]])
         IN  RatAdd(sswOf(groups, SubSeq(keys, 1, Len(keys) - 1)),
                    squaresAround(values, calculateMean(values)))

fStatisticOf_AlwaysDivides(msBetween, msWithin) == RatDiv(msBetween, msWithin)

\* msWithin === 0 ? 0 : msBetween / msWithin
fStatisticOf(msBetween, msWithin) ==
    IF msWithin = Num(0) THEN Num(0) ELSE RatDiv(msBetween, msWithin)

\* incompleteBeta(x, a, b): 0 at x = 0, 1 at x = 1, otherwise
\* normalCDF(Math.sqrt(x)), kept as the x it is taken of
incompleteBeta(x) ==
    IF x = Num(0) THEN [exact |-> Num(0)]
    ELSE IF x = Num(1) THEN [exact |-> Num(1)]
    ELSE [normalCDFOfSqrt |-> x]

\* fCDF(f, df1, df2); f <= 0 is false of NaN
fCDF(f, df1, df2) ==
    IF f # NaN /\ RatLeq(f, Num(0)) THEN [exact |-> Num(0)]
    ELSE incompleteBeta(RatDiv(Num(df2), RatAdd(Num(df2), RatMul(Num(df1), f))))

\* 1 - fCDF(fStatistic, dfBetween, dfWithin)
anovaPValue(cdf) ==
    IF "exact" \in DOMAIN cdf THEN [exact |-> RatSub(Num(1), cdf.exact)]
    ELSE [oneMinusNormalCDFOfSqrt |-> cdf.normalCDFOfSqrt]

\* pValue < 0.05: 1 - normalCDF(Math.sqrt(x)) is below 0.05 when Math.sqrt(x)
\* is beyond z = 1.645, that is x beyond 2.706; false of NaN
anovaBelow005(pValue) ==
    IF "exact" \in DOMAIN pValue THEN RatLess(pValue.exact, Rat(5, 100))
    ELSE /\ pValue.oneMinusNormalCDFOfSqrt # NaN
         /\ RatLess(Rat(2706, 1000), pValue.oneMinusNormalCDFOfSqrt)

performANOVA(groups) ==
    LET groupKeys  == groupKeysOf(groups)
        totalSum   == totalSumOf(groups, groupKeys)
        totalCount == totalCountOf(groups, groupKeys)
        grandMean  == RatDiv(totalSum, Num(totalCount))
        ssb        == ssbOf(groups, groupKeys, grandMean)
        ssw        == sswOf(groups, groupKeys)
        dfBetween  == Len(groupKeys) - 1
        dfWithin   == totalCount - Len(groupKeys)
        msBetween  == RatDiv(ssb, Num(dfBetween))
        msWithin   == RatDiv(ssw, Num(dfWithin))
        fStatistic == fStatisticOf(msBetween, msWithin)
        pValue     == anovaPValue(fCDF(fStatistic, dfBetween, dfWithin))
    IN  IF Len(groupKeys) < 2
        THEN [error |-> "ANOVA requires at least 2 groups with at least 2 samples each"]
        ELSE IF totalCount = 0
        THEN [error |-> "No valid data for ANOVA"]
        ELSE IF dfWithin <= 0
        THEN [error |-> "Insufficient degrees of freedom for ANOVA"]
        ELSE [ fStatistic  |-> fStatistic,
               pValue      |-> pValue,
               dfBetween   |-> dfBetween,
               dfWithin    |-> dfWithin,
               ssb         |-> ssb,
               ssw         |-> ssw,
               msBetween   |-> msBetween,
               msWithin    |-> msWithin,
               groupMeans  |-> [k \in {key \in 1..Len(groups) :
                                         Len(groups[key]) >= 2 /\ hasValidValues(groups, key)}
                                  |-> calculateMean(validValuesOf(groups[k]))],
               groupSizes  |-> [k \in {key \in 1..Len(groups) :
                                         Len(groups[key]) >= 2 /\ hasValidValues(groups, key)}
                                  |-> Len(validValuesOf(groups[k]))],
               grandMean   |-> grandMean,
               significant |-> anovaBelow005(pValue) ]

-----------------------------------------------------------------------------
(* contexts/AuthContext.jsx, services/api.js, components/Sidebar.jsx *)

\* !!token
isAuthenticated(a) == Truthy(a.token)

\* the response interceptor of apiClient on a 401: the auth entries leave
\* localStorage and window.location.href = '/login'
onUnauthorized(a) ==
    [a EXCEPT !.storedToken = JsNull, !.storedUser = JsNull,
              !.location = "/login", !.redirectedBy = "interceptor"]

\* what a rejected call of apiClient does to auth before the caller's catch
onRejected(a, status) == IF status = 401 THEN onUnauthorized(a) ELSE a

\* the bug of clearing localStorage only
clearsAuth_StorageOnly(a) ==
    [a EXCEPT !.storedToken = JsNull, !.storedUser = JsNull]

\* the finally block of logout
clearsAuth(a) ==
    [a EXCEPT !.storedToken = JsNull, !.storedUser = JsNull,
              !.token = JsNull, !.user = JsNull]

\* login, once a token was received: localStorage.setItem twice, setToken,
\* setUser
storesLogin(a, authToken, username) ==
    [a EXCEPT !.storedToken = authToken, !.storedUser = username,
              !.token = authToken, !.user = username]

\* the state after the mount effect of AuthProvider: token and user are
\* taken from localStorage when both entries are there
mountedAuth(storedToken, storedUser, location) ==
    LET both == Truthy(storedToken) /\ Truthy(storedUser)
    IN  [ mounted       |-> TRUE,
          loading       |-> FALSE,
          token         |-> IF both THEN storedToken ELSE JsNull,
          user          |-> IF both THEN storedUser ELSE JsNull,
          storedToken   |-> storedToken,
          storedUser    |-> storedUser,
          location      |-> location,
          redirectedBy  |-> "none",
          loginCall     |-> JsNull,
          logoutCall    |-> "idle",
          logoutOutcome |-> "none" ]

-----------------------------------------------------------------------------
(* services/dataService.js.  What a source answers is an outcome:           *)
(* [ok |-> TRUE, isArray, body] or [ok |-> FALSE, status]; status 0 stands  *)
(* for an error without a response (network, response.ok false, bad JSON).  *)

\* a promise that fulfils with value / that rejects with an error
Fulfilled(value) == [rejected |-> FALSE, value |-> value]

Rejected(status) == [rejected |-> TRUE, status |-> status]

\* loadFromJSON and loadFromAPI: Array.isArray(data) ? data : []; an error
\* is logged and thrown again
loadFrom(outcome) ==
    IF outcome.ok THEN Fulfilled(IF outcome.isArray THEN outcome.body ELSE <<>>)
    ELSE Rejected(outcome.status)

\* loadFromJSON().catch(err => []) / loadFromAPI().catch(err => [])
orEmpty(promise) == IF promise.rejected THEN <<>> ELSE promise.value

\* the bug of putting the last source first
RECURSIVE combineData_LastFirst(_)
combineData_LastFirst(dataArrays) ==
    IF dataArrays = <<>> THEN <<>>
    ELSE combineData_LastFirst(Tail(dataArrays)) \o Head(dataArrays)

\* dataArrays.flat()
RECURSIVE combineData(_)
combineData(dataArrays) ==
    IF dataArrays = <<>> THEN <<>>
    ELSE Head(dataArrays) \o combineData(Tail(dataArrays))

\* whether loadGameData(isAuthenticated) calls gameDataAPI.getAll()
queriesAPI(mode, authenticated) ==
    mode \in {"api", "combined"} /\ authenticated

\* loadGameData(isAuthenticated) under config.dataSource.mode, given what
\* the JSON file and the API answer; an unknown mode falls back to JSON
loadGameData(mode, authenticated, json, api) ==
    CASE mode = "api" ->
            IF ~authenticated THEN Fulfilled(<<>>) ELSE loadFrom(api)
      [] mode = "combined" ->
            Fulfilled(combineData(
                <<orEmpty(loadFrom(json))>>
                \o (IF authenticated THEN <<orEmpty(loadFrom(api))>> ELSE <<>>)))
      [] OTHER -> loadFrom(json)

-----------------------------------------------------------------------------
(* GameDataProvider (contexts/AuthContext.jsx 151-209), PageHeader.jsx.    *)
(* loader.calls are the calls of fetchData awaiting loadGameData, each     *)
(* with the isAuthenticated of the render it was created in.  lastSettle   *)
(* and latest are history: how the call that settled last went, and what   *)
(* the call that was started last put into data.                           *)

FailedToLoad == "Failed to load game data"

\* AuthProvider before its mount effect: useState(null), loading true
unmountedAuth(storedToken, storedUser, location) ==
    [mountedAuth(storedToken, storedUser, location) EXCEPT
        !.loading = TRUE, !.token = JsNull, !.user = JsNull]

\* useState([]), useState(true), useState('')
mountedLoader(mode) ==
    [ mounted    |-> TRUE,
      mode       |-> mode,
      loading    |-> TRUE,
      error      |-> "",
      calls      |-> {},
      started    |-> 0,
      effectRan  |-> FALSE,
      lastSettle |-> [id |-> 0, kind |-> "none", status |-> 0],
      latest     |-> [id |-> 0, value |-> <<>>] ]

\* if (mode === 'api' && !isAuthenticated) { setLoading(false); setData([]); return; }
skipsFetch(l) == [l EXCEPT !.loading = FALSE]

\* fetchData() up to its await: the loader and the data it leaves
fetchData(l, d, authenticated) ==
    LET id == l.started + 1
    IN  IF l.mode = "api" /\ ~authenticated
        THEN [ loader |-> [skipsFetch(l) EXCEPT
                              !.started = id,
                              !.lastSettle = [id |-> id, kind |-> "skipped", status |-> 0],
                              !.latest = [id |-> id, value |-> <<>>]],
               data   |-> <<>> ]
        ELSE [ loader |-> [l EXCEPT
                              !.loading = TRUE, !.error = "",
                              !.started = id,
                              !.calls = @ \cup {[id |-> id, isAuthenticated |-> authenticated]}],
               data   |-> d ]

\* fetchData() from the point loadGameData settles: setData, or catch; finally
settlesFetch(l, d, call, promise) ==
    LET isLatest == call.id = l.started
        rest == [l EXCEPT !.calls = @ \ {call}, !.loading = FALSE]
    IN  IF ~promise.rejected
        THEN [ loader |-> [rest EXCEPT
                              !.lastSettle = [id |-> call.id, kind |-> "resolved", status |-> 0],
                              !.latest = IF isLatest
                                         THEN [id |-> call.id, value |-> promise.value]
                                         ELSE @],
               data   |-> promise.value ]
        ELSE IF l.mode = "api" /\ promise.status = 401
        THEN [ loader |-> [rest EXCEPT
                              !.error = "",
                              !.lastSettle = [id |-> call.id, kind |-> "rejected", status |-> 401],
                              !.latest = IF isLatest THEN [id |-> call.id, value |-> <<>>]
                                         ELSE @],
               data   |-> <<>> ]
        ELSE [ loader |-> [rest EXCEPT
                              !.error = FailedToLoad,
                              !.lastSettle = [id |-> call.id, kind |-> "rejected",
                                              status |-> promise.status],
                              !.latest = IF isLatest THEN [id |-> 0, value |-> <<>>] ELSE @],
               data   |-> d ]

-----------------------------------------------------------------------------
(* pages/Data.jsx.  table.filters is the filters object: a function from   *)
(* the columns that have a filter to the filter text.                      *)

\* useState(1), useState(10), useState('event_at'), useState('asc'),
\* useState({}), useState('')
mountedTable ==
    [ mounted       |-> TRUE,
      currentPage   |-> 1,
      itemsPerPage  |-> 10,
      sortColumn    |-> "event_at",
      sortDirection |-> "asc",
      filters       |-> <<>>,
      globalSearch  |-> <<>> ]

\* the columns of an event whose values are strings of the model; the
\* other columns hold numbers or event types, which contain none of the
\* search texts of the model
StringColumns == {"player_id", "session_id", "game_reference", "game_mode"}

\* String(value).toLowerCase().includes(text.toLowerCase()), false for null
matchesText(value, text) ==
    /\ value \notin {JsNull, JsUndefined}
    /\ includes(toLowerCase(value), toLowerCase(text))

\* filteredData
filteredData(d, filters, globalSearch) ==
    SelectSeq(d, LAMBDA item :
        /\ (Truthy(globalSearch) /\ trim(globalSearch) # <<>>) =>
               \E column \in StringColumns : matchesText(item[column], globalSearch)
        /\ \A key \in DOMAIN filters :
               (Falsy(filters[key]) \/ trim(filters[key]) = <<>>)
               \/ matchesText(item[key], filters[key]))

\* sortedData for a date column ('event_at', or a column no event has, where
\* every date is 0): a stable sort by getTime(), ascending or descending
sortedData(filtered, sortColumn, sortDirection) ==
    LET date(i) == IF sortColumn = "event_at" THEN filtered[i].event_at ELSE 0
        perm == SortPerm([i \in 1..Len(filtered) |->
                             IF sortDirection = "asc" THEN date(i) ELSE 0 - date(i)],
                         Len(filtered))
    IN  [k \in 1..Len(filtered) |-> filtered[perm[k]]]

\* what the page lists, before pagination
tableRows(d, t) ==
    sortedData(filteredData(d, t.filters, t.globalSearch), t.sortColumn, t.sortDirection)

\* Math.ceil((sortedData?.length || 0) / itemsPerPage)
totalPages(length, itemsPerPage) == (length + itemsPerPage - 1) \div itemsPerPage

\* sortedData.slice(startIndex, endIndex)
paginatedData(sorted, currentPage, itemsPerPage) ==
    LET startIndex == (currentPage - 1) * itemsPerPage
    IN  SubSeq(sorted, startIndex + 1,
               IF startIndex + itemsPerPage < Len(sorted)
               THEN startIndex + itemsPerPage ELSE Len(sorted))

-----------------------------------------------------------------------------
(* The batches and mode strings the model is run on *)

Ev(type, mode, ref, player, session, level, at) ==
    [ event_at       |-> at,
      event_type     |-> type,
      player_id      |-> player,
      session_id     |-> session,
      game_reference |-> ref,
      game_level     |-> level,
      game_mode      |-> mode ]

ModeAR == <<"A","R">>
Mode2D == <<"2","D">>
ModeVR == <<"V","R","x">>
G1 == <<"g","1">>
G2 == <<"g","2">>
Blank == <<" ">>
P1 == <<"p","1">>
P2 == <<"p","2">>
S1 == <<"s","1">>
S2 == <<"s","2">>

Batches(pool) == UNION {[1..n -> pool] : n \in 0..MaxEvents}

\* validity: both selection events under every kind of mode, a second game
\* of another player and session, an end event, a blank game_reference
PoolValid ==
    {Ev(ty, m, G1, P1, S1, 1, 0) :
        ty \in {"simon_select", "simon_select_end"},
        m \in {ModeAR, Mode2D, ModeVR, JsNull}}
    \cup {Ev(ty, ModeAR, G2, P2, S2, 1, 0) : ty \in {"simon_select", "simon_select_end"}}
    \cup {Ev("game_over", JsNull, G1, P1, S1, 1, 1000),
          Ev("simon_select", Mode2D, Blank, P2, S2, 1, 0)}

\* timing: one game; Simon events on two levels, level_complete of level 2,
\* game_over, with equal and with different timestamps
PoolTime ==
    {Ev("simon_select", Mode2D, G1, P1, S1, 1, at) : at \in {0, 1000}}
    \cup {Ev("simon_select", Mode2D, G1, P1, S1, 2, 1000),
          Ev("simon_select_end", ModeAR, G1, P1, S1, 1, 0)}
    \cup {Ev(ty, JsNull, G1, P1, S1, 2, at) :
            ty \in {"level_complete", "game_over"}, at \in {1000, 2000}}
    \cup {Ev("level_complete", JsNull, G1, P1, S1, 2, 5000)}

\* aggregation: a 2D game of p1 in s1, an AR game of p1 in s2 that is valid
\* only with its simon_select_end, level 0, events without player_id and
\* without game_reference, a second player
PoolAgg ==
    {Ev("simon_select", Mode2D, G1, P1, S1, l, 0) : l \in {0, 1}}
    \cup {Ev("simon_select", ModeAR, G2, P1, S2, 2, 1000),
          Ev("simon_select_end", ModeAR, G2, P1, S2, 0, 2000),
          Ev("simon_select", Mode2D, G1, JsNull, S1, 1, 0),
          Ev("level_complete", Mode2D, G1, P2, S1, 2, 3000),
          Ev("app_start", JsNull, JsNull, P1, S2, NullNum, 0)}

\* outcomes: one 2D game with every event type the outcome depends on
PoolOutcome ==
    {Ev(ty, Mode2D, G1, P1, S1, 1, 0) :
        ty \in {"simon_select", "player_select", "level_complete", "game_over",
                "restart_game", "quit_application", "back_to_menu"}}

\* session times: one player; game events and events without a
\* game_reference before, between and after them; a second session
PoolSession ==
    {Ev("simon_select", Mode2D, G1, P1, S1, 1, at) : at \in {1000, 2000}}
    \cup {Ev("app_start", JsNull, JsNull, P1, S1, NullNum, at) : at \in {0, 3000}}
    \cup {Ev("simon_select", Mode2D, G2, P1, S2, 1, 1000),
          Ev("app_start", JsNull, JsNull, P1, S2, NullNum, 0)}

\* levels: one 2D game with selections on level 0, on level 1 and without a
\* level, end events of level 1 and 2 and without a level
PoolLevel ==
    {Ev("simon_select", Mode2D, G1, P1, S1, l, 0) : l \in {0, 1, NullNum}}
    \cup {Ev("level_complete", JsNull, G1, P1, S1, l, 1000) : l \in {1, 2, NullNum}}
    \cup {Ev("game_over", JsNull, G1, P1, S1, l, 1000) : l \in {0, NullNum}}

\* numbers handed to the statistics functions: array-index integers,
\* fractions, NaN
NumberPool == {Num(1), Num(3), Rat(1, 2), Rat(5, 2), NaN}

\* the sequences of at most max elements of pool
SeqsOver(pool, max) == UNION {[1..n -> pool] : n \in 0..max}

\* percentiles: the quartiles the pages ask for, both ends, one above 100
Percentiles == {Num(0), Num(25), Num(50), Num(75), Num(100), Num(150)}

\* the numbers of the two series handed to a correlation
SeriesPool == {Num(1), Num(2), Num(4), NaN}

\* contingency tables: rows over two groups with every count, a row with a
\* single group, rows over three groups
Counts == {0, 1, 2}

TableRows ==
    [{"g1", "g2"} -> Counts]
    \cup {[g \in {"g1"} |-> 1]}
    \cup {[g \in {"g1", "g2", "g3"} |-> c] : c \in {1, 2}}

\* per-player pairs of an AR and a 2D value, either of which may be null
PairedPool ==
    {[arMaxLevel |-> a, twoDMaxLevel |-> b] :
        a \in {Null, Num(1), Num(2), Num(4)}, b \in {Null, Num(1), Num(2)}}

ModeChars == {"a", "A", "r", "R", "2", "d", "D", " "}

ModeStrings ==
    {JsNull, JsUndefined} \cup UNION {[1..n -> ModeChars] : n \in 0..MaxModeLen}

-----------------------------------------------------------------------------
(* State machine *)

\* tokens, users and the HTTP statuses of a rejected call (0: no response)
Tokens == {<<"t", "1">>, <<"t", "2">>}

Usernames == {<<"u", "1">>, <<"u", "2">>}

Statuses == {401, 500, 0}

\* what the JSON file and the API hold: batches of two events, in either
\* order and repeated
\* value arrays of a group: up to two values of 1 and 3, a longer array of
\* equal values, and arrays that hold NaN
GroupPool ==
    SeqsOver({Num(1), Num(3)}, 2)
    \cup {<<Num(3), Num(3), Num(3)>>, <<Num(1), NaN>>, <<NaN, NaN>>}

SourcePool ==
    {Ev("simon_select", Mode2D, G1, P1, S1, 1, 0),
     Ev("game_over", JsNull, G1, P1, S1, 1, 1000)}

\* what a JSON load can answer
JsonOutcomes ==
    {[ok |-> TRUE, isArray |-> TRUE, body |-> b] : b \in SeqsOver(SourcePool, MaxSource)}
    \cup {[ok |-> TRUE, isArray |-> FALSE, body |-> <<>>], [ok |-> FALSE, status |-> 0]}

\* what gameDataAPI.getAll() can answer
ApiOutcomes ==
    {[ok |-> TRUE, isArray |-> TRUE, body |-> b] : b \in SeqsOver(SourcePool, MaxSource)}
    \cup {[ok |-> TRUE, isArray |-> FALSE, body |-> <<>>]}
    \cup {[ok |-> FALSE, status |-> st] : st \in Statuses}

DataSourceModes == {"json", "api", "combined"}

\* the records of the Data page: n events of one game, alternately of
\* players p1 and p2, one second apart
Records(n) ==
    [i \in 1..n |-> Ev("simon_select", Mode2D, G1, IF i % 2 = 1 THEN P1 ELSE P2,
                       S1, 1, i * 1000)]

TableBatches == {Records(n) : n \in {0, 1, 11, MaxRecords}}

\* <option value={10}> ... <option value={200}>
PageSizes == {10, 25, 50, 100, 200}

\* filter and search texts: none, blank, matching in another case, matching
\* half of the records, matching nothing
Texts == {<<>>, <<" ">>, <<"P">>, <<"p", "2">>, <<"z">>}

FilterColumns == {"player_id"}

SortColumns == {"event_at", "created_at"}

NoView == [page |-> "none"]

NoArgs == [fn |-> "none"]

NoResult == [returned |-> FALSE]

\* the providers and the Data page are not mounted
NoAuth == [mounted |-> FALSE]

NoLoader == [mounted |-> FALSE]

NoTable == [mounted |-> FALSE]

InitBatch(pool) ==
    /\ data \in Batches(pool)
    /\ view = NoView
    /\ gameMode = JsNull
    /\ category = "unset"
    /\ args = NoArgs
    /\ result = NoResult
    /\ auth = NoAuth
    /\ loader = NoLoader
    /\ table = NoTable

InitValid == InitBatch(PoolValid)

InitTime == InitBatch(PoolTime)

InitOutcome == InitBatch(PoolOutcome)

InitSession == InitBatch(PoolSession)

InitLevel == InitBatch(PoolLevel)

Init == InitBatch(PoolAgg)

InitStats ==
    /\ data = <<>>
    /\ view = NoView
    /\ gameMode = JsNull
    /\ category = "unset"
    /\ args \in
        {[fn |-> f, values |-> v] : f \in {"calculateMedian", "calculateMode"},
        v \in SeqsOver(NumberPool, MaxValues)}
        \cup {[fn |-> "calculatePercentile", values |-> v, percentile |-> q] :
        v \in SeqsOver(NumberPool, MaxValues), q \in Percentiles}
        \cup {[fn |-> "createHistogramData", values |-> v, bins |-> b] :
        v \in SeqsOver(NumberPool, MaxValues), b \in 1..MaxBins}
    /\ result = NoResult
    /\ auth = NoAuth
    /\ loader = NoLoader
    /\ table = NoTable

InitCorrelation ==
    /\ data = <<>>
    /\ view = NoView
    /\ gameMode = JsNull
    /\ category = "unset"
    /\ args \in
        {[fn |-> "calculatePearsonCorrelation", x |-> x, y |-> y] :
        x \in SeqsOver(SeriesPool, MaxPairs), y \in SeqsOver(SeriesPool, MaxPairs)}
        \cup {[fn |-> "rankValues", values |-> v] :
        v \in {w \in SeqsOver(NumberPool, MaxValues) : \A i \in 1..Len(w) : isFiniteNumber(w[i])}}
    /\ result = NoResult
    /\ auth = NoAuth
    /\ loader = NoLoader
    /\ table = NoTable

InitInference ==
    /\ data = <<>>
    /\ view = NoView
    /\ gameMode = JsNull
    /\ category = "unset"
    /\ args \in
        {[fn |-> "performChiSquare", observed |-> t] : t \in SeqsOver(TableRows, MaxRows)}
        \cup {[fn |-> "performSimpleLinearRegression", x |-> x, y |-> y] :
        x \in SeqsOver(SeriesPool, MaxPairs), y \in SeqsOver(SeriesPool, MaxPairs)}
        \cup {[fn |-> "performPairedTTest", pairs |-> q] : q \in SeqsOver(PairedPool, MaxPairs)}
        \cup {[fn |-> "performANOVA", groups |-> g] : g \in SeqsOver(GroupPool, MaxGroups)}
    /\ result = NoResult
    /\ auth = NoAuth
    /\ loader = NoLoader
    /\ table = NoTable

InitAuth ==
    /\ data = <<>>
    /\ view = NoView
    /\ gameMode = JsNull
    /\ category = "unset"
    /\ args = NoArgs
    /\ result = NoResult
    /\ \E storedToken \in Tokens \cup {JsNull}, storedUser \in Usernames \cup {JsNull},
          location \in {"/dashboard", "/login"} :
          auth = mountedAuth(storedToken, storedUser, location)
    /\ loader = NoLoader
    /\ table = NoTable

InitService ==
    /\ data = <<>>
    /\ view = NoView
    /\ gameMode = JsNull
    /\ category = "unset"
    /\ args \in {[fn |-> "loadGameData", mode |-> m, isAuthenticated |-> a,
                  json |-> j, api |-> r] :
                    m \in DataSourceModes, a \in BOOLEAN,
                    j \in JsonOutcomes, r \in ApiOutcomes}
    /\ result = NoResult
    /\ auth = NoAuth
    /\ loader = NoLoader
    /\ table = NoTable

InitLoader ==
    /\ data = <<>>
    /\ view = NoView
    /\ gameMode = JsNull
    /\ category = "unset"
    /\ args = NoArgs
    /\ result = NoResult
    /\ \E stored \in {TRUE, FALSE} :
          auth = unmountedAuth(IF stored THEN <<"t", "1">> ELSE JsNull,
                               IF stored THEN <<"u", "1">> ELSE JsNull, "/dashboard")
    /\ \E mode \in DataSourceModes : loader = mountedLoader(mode)
    /\ table = NoTable

InitTable ==
    /\ data \in TableBatches
    /\ view = NoView
    /\ gameMode = JsNull
    /\ category = "unset"
    /\ args = NoArgs
    /\ result = NoResult
    /\ auth = NoAuth
    /\ loader = NoLoader
    /\ table = mountedTable

InitMode ==
    /\ data = <<>>
    /\ view = NoView
    /\ gameMode \in ModeStrings
    /\ category = "unset"
    /\ args = NoArgs
    /\ result = NoResult
    /\ auth = NoAuth
    /\ loader = NoLoader
    /\ table = NoTable

\* useEffect(() => { if (data && data.length > 0) calculateStats(); }, [data])
Dashboard ==
    /\ view.page = "none"
    /\ Len(data) > 0
    /\ view' = [page |-> "Dashboard", stats |-> calculateStats(data)]
    /\ UNCHANGED <<data, gameMode, category, args, result, auth, loader, table>>

\* useEffect(() => { if (data && data.length > 0) processPlayersData(); }, [data])
PlayersList ==
    /\ view.page = "none"
    /\ Len(data) > 0
    /\ view' = [page |-> "PlayersList", players |-> processPlayersData(data)]
    /\ UNCHANGED <<data, gameMode, category, args, result, auth, loader, table>>

\* handlePlayerClick, then a session of PlayerDetail is expanded:
\* <SessionDetail session={session} />
SessionDetail ==
    /\ view.page = "PlayersList"
    /\ \E p \in 1..Len(view.players) :
         LET sessions == sessionsData(view.players[p].events)
         IN  \E k \in 1..Len(sessions) :
                view' = [ page      |-> "SessionDetail",
                          player_id |-> view.players[p].player_id,
                          session   |-> sessions[k],
                          gamesData |-> gamesData(sessions[k].events) ]
    /\ UNCHANGED <<data, gameMode, category, args, result, auth, loader, table>>

\* useMemo: if (!data || data.length === 0) return null
DescriptiveAnalysis ==
    /\ view.page = "none"
    /\ Len(data) > 0
    /\ view' = [page |-> "DescriptiveAnalysis", analysisData |-> analysisData(data)]
    /\ UNCHANGED <<data, gameMode, category, args, result, auth, loader, table>>

CorrelationAnalysis ==
    /\ view.page = "none"
    /\ Len(data) > 0
    /\ view' = [page |-> "CorrelationAnalysis", processedData |-> processedData(data)]
    /\ UNCHANGED <<data, gameMode, category, args, result, auth, loader, table>>

RegressionAnalysis ==
    /\ view.page = "none"
    /\ Len(data) > 0
    /\ view' = [page |-> "RegressionAnalysis", processedData |-> regressionData(data)]
    /\ UNCHANGED <<data, gameMode, category, args, result, auth, loader, table>>

InferentialStatistics ==
    /\ view.page = "none"
    /\ Len(data) > 0
    /\ view' = [page |-> "InferentialStatistics", processedData |-> inferentialData(data)]
    /\ UNCHANGED <<data, gameMode, category, args, result, auth, loader, table>>

\* the route changes: the page is unmounted
Leave ==
    /\ view.page # "none"
    /\ view' = NoView
    /\ UNCHANGED <<data, gameMode, category, args, result, auth, loader, table>>

\* a call of mapGameModeToCategory(gameMode)
MapGameMode ==
    /\ category = "unset"
    /\ category' = mapGameModeToCategory(gameMode)
    /\ UNCHANGED <<data, view, gameMode, args, result, auth, loader, table>>

Returns(value) ==
    /\ result = NoResult
    /\ result' = [returned |-> TRUE, value |-> value]
    /\ UNCHANGED <<data, view, gameMode, category, args, auth, loader, table>>

CalculateMedian ==
    /\ args.fn = "calculateMedian"
    /\ Returns(calculateMedian(args.values))

CalculateMode ==
    /\ args.fn = "calculateMode"
    /\ Returns(calculateMode(args.values))

CalculatePercentile ==
    /\ args.fn = "calculatePercentile"
    /\ Returns(calculatePercentile(args.values, args.percentile))

CreateHistogramData ==
    /\ args.fn = "createHistogramData"
    /\ Returns(createHistogramData(args.values, args.bins))

CalculatePearsonCorrelation ==
    /\ args.fn = "calculatePearsonCorrelation"
    /\ Returns(calculatePearsonCorrelation(args.x, args.y))

RankValues ==
    /\ args.fn = "rankValues"
    /\ Returns(rankValues(args.values))

PerformChiSquare ==
    /\ args.fn = "performChiSquare"
    /\ Returns(performChiSquare(args.observed))

PerformSimpleLinearRegression ==
    /\ args.fn = "performSimpleLinearRegression"
    /\ Returns(performSimpleLinearRegression(args.x, args.y))

\* performPairedTTest(processedData.pairedData, 'arMaxLevel', 'twoDMaxLevel')
PerformPairedTTest ==
    /\ args.fn = "performPairedTTest"
    /\ Returns(performPairedTTest(args.pairs, "arMaxLevel", "twoDMaxLevel"))

\* performANOVA(processedData.responseTimesByLevel)
PerformANOVA ==
    /\ args.fn = "performANOVA"
    /\ Returns(performANOVA(args.groups))

\* login(username, password): the call of authAPI.login is sent
Login ==
    /\ auth.mounted
    /\ auth.loginCall = JsNull
    /\ \E username \in Usernames : auth' = [auth EXCEPT !.loginCall = username]
    /\ UNCHANGED <<data, view, gameMode, category, args, result, loader, table>>

\* authAPI.login resolves with a token or without one
LoginResolves ==
    /\ auth.mounted
    /\ auth.loginCall # JsNull
    /\ \E authToken \in Tokens \cup {JsUndefined} :
          auth' = IF Falsy(authToken) THEN [auth EXCEPT !.loginCall = JsNull]
                  ELSE [storesLogin(auth, authToken, auth.loginCall) EXCEPT
                            !.loginCall = JsNull]
    /\ UNCHANGED <<data, view, gameMode, category, args, result, loader, table>>

\* authAPI.login rejects: login returns { success: false }
LoginRejects ==
    /\ auth.mounted
    /\ auth.loginCall # JsNull
    /\ \E status \in Statuses :
          auth' = [onRejected(auth, status) EXCEPT !.loginCall = JsNull]
    /\ UNCHANGED <<data, view, gameMode, category, args, result, loader, table>>

\* a protected route is opened by an authenticated user
OpenDashboard ==
    /\ auth.mounted
    /\ isAuthenticated(auth)
    /\ auth.location = "/login"
    /\ auth' = [auth EXCEPT !.location = "/dashboard", !.redirectedBy = "none"]
    /\ UNCHANGED <<data, view, gameMode, category, args, result, loader, table>>

\* Sidebar.handleLogout calls logout(): with a token authAPI.logout is sent
\* and awaited, without one the finally block runs at once
HandleLogout ==
    /\ auth.mounted
    /\ auth.location # "/login"
    /\ auth.logoutCall = "idle"
    /\ auth' = IF isAuthenticated(auth)
               THEN [auth EXCEPT !.logoutCall = "awaiting", !.logoutOutcome = "none"]
               ELSE [clearsAuth(auth) EXCEPT !.logoutCall = "settled",
                                             !.logoutOutcome = "skipped"]
    /\ UNCHANGED <<data, view, gameMode, category, args, result, loader, table>>

\* authAPI.logout resolves: finally
LogoutResolves ==
    /\ auth.mounted
    /\ auth.logoutCall = "awaiting"
    /\ auth' = [clearsAuth(auth) EXCEPT !.logoutCall = "settled",
                                        !.logoutOutcome = "resolved"]
    /\ UNCHANGED <<data, view, gameMode, category, args, result, loader, table>>

\* authAPI.logout rejects: catch, finally
LogoutRejects ==
    /\ auth.mounted
    /\ auth.logoutCall = "awaiting"
    /\ \E status \in Statuses :
          auth' = [clearsAuth(onRejected(auth, status)) EXCEPT
                       !.logoutCall = "settled", !.logoutOutcome = "rejected"]
    /\ UNCHANGED <<data, view, gameMode, category, args, result, loader, table>>

\* handleLogout after await logout(): navigate('/login')
NavigateToLogin ==
    /\ auth.mounted
    /\ auth.logoutCall = "settled"
    /\ auth' = [auth EXCEPT !.logoutCall = "idle", !.location = "/login",
                            !.redirectedBy = "Sidebar"]
    /\ UNCHANGED <<data, view, gameMode, category, args, result, loader, table>>

NextAuth ==
    \/ Login
    \/ LoginResolves
    \/ LoginRejects
    \/ OpenDashboard
    \/ HandleLogout
    \/ LogoutResolves
    \/ LogoutRejects
    \/ NavigateToLogin

\* await loadGameData(isAuthenticated)
LoadGameData ==
    /\ args.fn = "loadGameData"
    /\ Returns(loadGameData(args.mode, args.isAuthenticated, args.json, args.api))

NextService == LoadGameData

\* the effect of GameDataProvider runs for the first time, AuthProvider
\* still loading: fetchData() in 'json' mode only
ProviderMounts ==
    /\ loader.mounted
    /\ ~loader.effectRan
    /\ LET r == IF loader.mode = "json" \/ ~auth.loading
                THEN fetchData(loader, data, isAuthenticated(auth))
                ELSE [loader |-> loader, data |-> data]
       IN  /\ loader' = [r.loader EXCEPT !.effectRan = TRUE]
           /\ data' = r.data
    /\ UNCHANGED <<view, gameMode, category, args, result, auth, table>>

\* the mount effect of AuthProvider takes token and user from localStorage
\* and ends loading; the effect of GameDataProvider runs again: fetchData()
AuthMounts ==
    /\ loader.mounted
    /\ loader.effectRan
    /\ auth.loading
    /\ auth' = mountedAuth(auth.storedToken, auth.storedUser, auth.location)
    /\ LET r == fetchData(loader, data, isAuthenticated(auth'))
       IN  loader' = r.loader /\ data' = r.data
    /\ UNCHANGED <<view, gameMode, category, args, result, table>>

\* a login stores a token or a logout clears it: isAuthenticated changes and
\* the effect of GameDataProvider runs fetchData()
AuthenticationChanges ==
    /\ loader.mounted
    /\ loader.effectRan
    /\ ~auth.loading
    /\ loader.started < MaxFetches
    /\ auth' = IF isAuthenticated(auth) THEN clearsAuth(auth)
               ELSE storesLogin(auth, <<"t", "1">>, <<"u", "1">>)
    /\ LET r == fetchData(loader, data, isAuthenticated(auth'))
       IN  loader' = r.loader /\ data' = r.data
    /\ UNCHANGED <<view, gameMode, category, args, result, table>>

\* PageHeader.handleRefresh: refreshData(); the button is disabled={loading}
Refresh ==
    /\ loader.mounted
    /\ loader.effectRan
    /\ ~loader.loading
    /\ loader.started < MaxFetches
    /\ LET r == fetchData(loader, data, isAuthenticated(auth))
       IN  loader' = r.loader /\ data' = r.data
    /\ UNCHANGED <<view, gameMode, category, args, result, auth, table>>

\* loadGameData of a call in flight settles, the sources answering as they
\* do at that moment; a 401 of the API passes the response interceptor
FetchSettles ==
    /\ loader.mounted
    /\ \E call \in loader.calls, json \in JsonOutcomes, api \in ApiOutcomes :
          LET promise == loadGameData(loader.mode, call.isAuthenticated, json, api)
              r == settlesFetch(loader, data, call, promise)
          IN  /\ loader' = r.loader
              /\ data' = r.data
              /\ auth' = IF queriesAPI(loader.mode, call.isAuthenticated) /\ ~api.ok
                         THEN onRejected(auth, api.status) ELSE auth
    /\ UNCHANGED <<view, gameMode, category, args, result, table>>

\* window.location.href = '/login' loads the page anew: both providers are
\* constructed again, calls in flight are gone
Reload ==
    /\ loader.mounted
    /\ auth.redirectedBy = "interceptor"
    /\ auth' = unmountedAuth(auth.storedToken, auth.storedUser, "/login")
    /\ loader' = mountedLoader(loader.mode)
    /\ data' = <<>>
    /\ UNCHANGED <<view, gameMode, category, args, result, table>>

NextLoader ==
    \/ ProviderMounts
    \/ AuthMounts
    \/ AuthenticationChanges
    \/ Refresh
    \/ FetchSettles
    \/ Reload

\* a pagination button: handlePageChange(1 | currentPage - 1 |
\* currentPage + 1 | totalPages); the buttons are there when totalPages > 1
HandlePageChange ==
    /\ table.mounted
    /\ LET pages == totalPages(Len(tableRows(data, table)), table.itemsPerPage)
       IN  /\ pages > 1
           /\ \E newPage \in {1, table.currentPage - 1, table.currentPage + 1, pages} :
                 /\ newPage >= 1 /\ newPage <= pages
                 /\ table' = [table EXCEPT !.currentPage = newPage]
    /\ UNCHANGED <<data, view, gameMode, category, args, result, auth, loader>>

HandleItemsPerPageChange ==
    /\ table.mounted
    /\ \E size \in PageSizes :
          table' = [table EXCEPT !.itemsPerPage = size, !.currentPage = 1]
    /\ UNCHANGED <<data, view, gameMode, category, args, result, auth, loader>>

HandleSort ==
    /\ table.mounted
    /\ \E column \in SortColumns :
          table' = IF table.sortColumn = column
                   THEN [table EXCEPT
                            !.sortDirection = IF @ = "asc" THEN "desc" ELSE "asc",
                            !.currentPage = 1]
                   ELSE [table EXCEPT !.sortColumn = column, !.sortDirection = "asc",
                                      !.currentPage = 1]
    /\ UNCHANGED <<data, view, gameMode, category, args, result, auth, loader>>

HandleFilterChange ==
    /\ table.mounted
    /\ \E column \in FilterColumns, value \in Texts :
          LET kept == DOMAIN table.filters \ {column}
              newFilters ==
                  IF Truthy(value) /\ trim(value) # <<>>
                  THEN [c \in kept \cup {column} |->
                           IF c = column THEN value ELSE table.filters[c]]
                  ELSE [c \in kept |-> table.filters[c]]
          IN  table' = [table EXCEPT !.filters = newFilters, !.currentPage = 1]
    /\ UNCHANGED <<data, view, gameMode, category, args, result, auth, loader>>

ClearFilters ==
    /\ table.mounted
    /\ table' = [table EXCEPT !.filters = <<>>, !.globalSearch = <<>>, !.currentPage = 1]
    /\ UNCHANGED <<data, view, gameMode, category, args, result, auth, loader>>

HandleGlobalSearchChange ==
    /\ table.mounted
    /\ \E value \in Texts :
          table' = [table EXCEPT !.globalSearch = value, !.currentPage = 1]
    /\ UNCHANGED <<data, view, gameMode, category, args, result, auth, loader>>

\* useGameData() hands the page another data after a refresh; the state of
\* the page is kept
DataRefreshed ==
    /\ table.mounted
    /\ \E d \in TableBatches : d # data /\ data' = d
    /\ UNCHANGED <<view, gameMode, category, args, result, auth, loader, table>>

NextTable ==
    \/ HandlePageChange
    \/ HandleItemsPerPageChange
    \/ HandleSort
    \/ HandleFilterChange
    \/ ClearFilters
    \/ HandleGlobalSearchChange
    \/ DataRefreshed

Next ==
    \/ Dashboard
    \/ PlayersList
    \/ SessionDetail
    \/ DescriptiveAnalysis
    \/ CorrelationAnalysis
    \/ RegressionAnalysis
    \/ InferentialStatistics
    \/ Leave

NextMode == MapGameMode

NextStats ==
    \/ CalculateMedian
    \/ CalculateMode
    \/ CalculatePercentile
    \/ CreateHistogramData

Spec == Init /\ [][Next]_vars

SpecValid == InitValid /\ [][Next]_vars

SpecTime == InitTime /\ [][Next]_vars

SpecOutcome == InitOutcome /\ [][Next]_vars

SpecSession == InitSession /\ [][Next]_vars

SpecLevel == InitLevel /\ [][Next]_vars

SpecStats == InitStats /\ [][NextStats]_vars

NextCorrelation ==
    \/ CalculatePearsonCorrelation
    \/ RankValues

SpecCorrelation == InitCorrelation /\ [][NextCorrelation]_vars

NextInference ==
    \/ PerformChiSquare
    \/ PerformSimpleLinearRegression
    \/ PerformPairedTTest
    \/ PerformANOVA

SpecInference == InitInference /\ [][NextInference]_vars

SpecMode == InitMode /\ [][NextMode]_vars

SpecAuth == InitAuth /\ [][NextAuth]_vars

SpecService == InitService /\ [][NextService]_vars

SpecLoader == InitLoader /\ [][NextLoader]_vars

SpecTable == InitTable /\ [][NextTable]_vars

-----------------------------------------------------------------------------
(* Properties: game validity *)

\* the positions in d of the events of game g
GroupOf(d, g) == {i \in 1..Len(d) : d[i].game_reference = g}

\* the game_reference values of d that are non-empty after trimming
NonBlankRefs(d) ==
    {d[i].game_reference : i \in {j \in 1..Len(d) :
        d[j].game_reference \notin {JsNull, JsUndefined}
        /\ \E c \in 1..Len(d[j].game_reference) : d[j].game_reference[c] \notin WhiteSpace}}

\* the game's mode classifies as AR: the first event of the group, in the
\* order of the batch, that carries a game_mode
ClassifiesAsAR(d, g) ==
    \E i \in GroupOf(d, g) :
        /\ d[i].game_mode \notin {JsNull, JsUndefined, <<>>}
        /\ \A j \in GroupOf(d, g) :
              j < i => d[j].game_mode \in {JsNull, JsUndefined, <<>>}
        /\ mapGameModeToCategory(d[i].game_mode) = "AR"

\* the group holds the qualifying event of its mode
QualifyingEventPresent(d, g) ==
    \/ /\ ClassifiesAsAR(d, g)
       /\ \E i \in GroupOf(d, g) : d[i].event_type = "simon_select_end"
    \/ /\ ~ClassifiesAsAR(d, g)
       /\ \E i \in GroupOf(d, g) : d[i].event_type = "simon_select"

QualifyingGames(d) == {g \in NonBlankRefs(d) : QualifyingEventPresent(d, g)}

\* C1: a game (a game_reference that is non-empty after trimming) is valid iff
\* its group holds simon_select_end when its mode classifies as AR, simon_select
\* otherwise; the Dashboard's game, session and player totals count the valid
\* games only, and every response-time sample belongs to a valid game.
C1_ValidIffQualifyingEvent ==
    /\ view.page = "Dashboard" =>
          /\ view.stats.uniqueGames = QualifyingGames(data)
          /\ view.stats.totalGames = Cardinality(QualifyingGames(data))
          /\ view.stats.uniqueSessions =
                {data[i].session_id : i \in {j \in 1..Len(data) :
                    /\ data[j].session_id \notin {JsNull, JsUndefined, <<>>}
                    /\ data[j].game_reference \in QualifyingGames(data)}}
          /\ view.stats.uniquePlayers =
                {data[i].player_id : i \in {j \in 1..Len(data) :
                    /\ data[j].player_id \notin {JsNull, JsUndefined, <<>>}
                    /\ data[j].game_reference \in QualifyingGames(data)}}
          /\ view.stats.totalSessions = Cardinality(view.stats.uniqueSessions)
          /\ view.stats.totalPlayers = Cardinality(view.stats.uniquePlayers)
    /\ view.page = "DescriptiveAnalysis" =>
          \A k \in 1..Len(view.analysisData.samples) :
              view.analysisData.samples[k].game \in QualifyingGames(data)

\* the Dashboard of a batch with a valid game and an AR game whose only
\* candidate is simon_select
C1_Witness ==
    /\ view.page = "Dashboard"
    /\ view.stats.totalGames = 1
    /\ \E g \in NonBlankRefs(data) :
          /\ g \notin view.stats.uniqueGames
          /\ ClassifiesAsAR(data, g)
          /\ \E i \in GroupOf(data, g) : data[i].event_type = "simon_select"

-----------------------------------------------------------------------------
(* Properties: response-time extraction *)

\* the time-sorted events of game g of the batch
SortedGame(d, g) == sortedEventsOf(eventsByGame(d, g))

\* the event type that starts a sample, from the mode of the time-sorted game
QualifyingType(sorted) ==
    IF \E i \in 1..Len(sorted) :
          /\ sorted[i].game_mode \notin {JsNull, JsUndefined, <<>>}
          /\ \A j \in 1..(i - 1) : sorted[j].game_mode \in {JsNull, JsUndefined, <<>>}
          /\ mapGameModeToCategory(sorted[i].game_mode) = "AR"
    THEN "simon_select_end" ELSE "simon_select"

\* the positions of the qualifying events of level L
StartCandidates(sorted, L) ==
    {i \in 1..Len(sorted) :
        sorted[i].game_level = L /\ sorted[i].event_type = QualifyingType(sorted)}

\* the level_complete events of level L + 1 after position s
LevelCompletesAfter(sorted, s, L) ==
    {i \in (s + 1)..Len(sorted) :
        sorted[i].event_type = "level_complete" /\ sorted[i].game_level = L + 1}

GameOversAfter(sorted, s) ==
    {i \in (s + 1)..Len(sorted) : sorted[i].event_type = "game_over"}

\* the (start, end) pair the rule of C4 prescribes for level L: no pair, or one
PrescribedPairs(sorted, L) ==
    {<<s, e>> \in (1..Len(sorted)) \X (1..Len(sorted)) :
        /\ s \in StartCandidates(sorted, L)
        /\ \A i \in StartCandidates(sorted, L) : i <= s
        /\ IF LevelCompletesAfter(sorted, s, L) # {}
           THEN /\ e \in LevelCompletesAfter(sorted, s, L)
                /\ \A i \in LevelCompletesAfter(sorted, s, L) : e <= i
           ELSE /\ e \in GameOversAfter(sorted, s)
                /\ \A i \in GameOversAfter(sorted, s) : e <= i
        /\ sorted[e].event_at > sorted[s].event_at}

\* the levels L > 0 present in the game
LevelsAboveZero(sorted) ==
    {l \in {sorted[i].game_level : i \in 1..Len(sorted)} : l # NullNum /\ l > 0}

SamplesOf(samples, g, L) ==
    {k \in 1..Len(samples) : samples[k].game = g /\ samples[k].level = L}

PositiveAndUnique(samples) ==
    /\ \A k \in 1..Len(samples) : samples[k].durationMs > 0
    /\ \A j, k \in 1..Len(samples) :
          (samples[j].game = samples[k].game /\ samples[j].level = samples[k].level)
             => j = k

\* C3: extraction yields at most one sample per (game, level), and every
\* sample lasts strictly more than 0 (DescriptiveAnalysis and
\* RegressionAnalysis).
C3_AtMostOnePositiveSample ==
    /\ view.page = "DescriptiveAnalysis" => PositiveAndUnique(view.analysisData.samples)
    /\ view.page = "RegressionAnalysis" =>
          PositiveAndUnique(view.processedData.simpleRegressionData)

\* level 1 yields a sample while the level-2 candidate, whose end event has
\* the timestamp of its Simon event, is discarded
C3_Witness ==
    /\ view.page = "DescriptiveAnalysis"
    /\ Len(view.analysisData.samples) = 1
    /\ view.analysisData.samples[1].level = 1
    /\ \E i, j \in 1..Len(data) :
          /\ i < j
          /\ data[i].event_type = "simon_select" /\ data[i].game_level = 2
          /\ data[j].event_type = "game_over"
          /\ data[i].event_at = data[j].event_at

\* C4: for a valid game and a level L > 0 the sample starts at the last
\* qualifying event of the level-L bucket and ends at the first level_complete
\* of level L + 1 after it, at the first game_over after it only when there is
\* no such level_complete; without a start or an end (or with a duration that
\* is not positive) the level has no sample.  simon_select at 0 on level 1 and
\* level_complete at 5 s on level 2 give the one sample {1, 2D, 5 s}.
C4_StartAndEndOfSample ==
    view.page = "DescriptiveAnalysis" =>
        /\ \A g \in gamesWithSimonSelect(data) :
              \A L \in LevelsAboveZero(SortedGame(data, g)) :
                 {<<view.analysisData.samples[k].simonIndex,
                    view.analysisData.samples[k].endIndex,
                    view.analysisData.samples[k].durationMs>> :
                        k \in SamplesOf(view.analysisData.samples, g, L)}
                 = {<<p[1], p[2],
                      SortedGame(data, g)[p[2]].event_at - SortedGame(data, g)[p[1]].event_at>> :
                        p \in PrescribedPairs(SortedGame(data, g), L)}
        /\ \A k \in 1..Len(view.analysisData.samples) :
              /\ view.analysisData.samples[k].game \in gamesWithSimonSelect(data)
              /\ view.analysisData.samples[k].level
                    \in LevelsAboveZero(SortedGame(data, view.analysisData.samples[k].game))
        /\ data = << Ev("simon_select", Mode2D, G1, P1, S1, 1, 0),
                     Ev("level_complete", JsNull, G1, P1, S1, 2, 5000) >>
             => /\ Len(view.analysisData.samples) = 1
                /\ view.analysisData.samples[1].level = 1
                /\ view.analysisData.samples[1].mode = "2D"
                /\ view.analysisData.samples[1].durationMs = 5000

\* two simon_select on level 1: the sample starts at the later one
C4_Witness ==
    /\ view.page = "DescriptiveAnalysis"
    /\ \E k \in 1..Len(view.analysisData.samples) :
          /\ view.analysisData.samples[k].level = 1
          /\ view.analysisData.samples[k].simonIndex = 2
          /\ view.analysisData.samples[k].durationMs = 1000
          /\ SortedGame(data, G1)[1].event_type = "simon_select"
          /\ SortedGame(data, G1)[1].game_level = 1
          /\ SortedGame(data, G1)[1].event_at = 0

\* C5 as stated: the end event is the earliest, in timestamp order, of the
\* events after the qualifying event that are a level_complete of level + 1
\* or a game_over.
C5_EndIsEarliestOfBoth ==
    view.page = "CorrelationAnalysis" =>
        \A k \in 1..Len(view.processedData.responseTimeLevelPairs) :
            LET sample == view.processedData.responseTimeLevelPairs[k]
                sorted == SortedGame(data, sample.game)
            IN  \A i \in LevelCompletesAfter(sorted, sample.simonIndex, sample.level)
                         \cup GameOversAfter(sorted, sample.simonIndex) :
                    sorted[sample.endIndex].event_at <= sorted[i].event_at

\* C5 amended: the end event is the first level_complete of level + 1 after
\* the qualifying event; only when there is none is it the first game_over
\* after the qualifying event.  A game_over that comes before that
\* level_complete does not end the sample.
C5_EndPrefersLevelComplete ==
    view.page = "CorrelationAnalysis" =>
        \A k \in 1..Len(view.processedData.responseTimeLevelPairs) :
            LET sample == view.processedData.responseTimeLevelPairs[k]
                sorted == SortedGame(data, sample.game)
                lcs    == LevelCompletesAfter(sorted, sample.simonIndex, sample.level)
                gos    == GameOversAfter(sorted, sample.simonIndex)
            IN  /\ sample.durationMs
                     = sorted[sample.endIndex].event_at - sorted[sample.simonIndex].event_at
                /\ IF lcs # {}
                   THEN sample.endIndex \in lcs /\ \A i \in lcs : sample.endIndex <= i
                   ELSE sample.endIndex \in gos /\ \A i \in gos : sample.endIndex <= i

\* a game_over lies strictly between the qualifying event and the
\* level_complete that ends the sample
C5_Witness ==
    /\ view.page = "CorrelationAnalysis"
    /\ \E k \in 1..Len(view.processedData.responseTimeLevelPairs) :
          LET sample == view.processedData.responseTimeLevelPairs[k]
              sorted == SortedGame(data, sample.game)
          IN  /\ sorted[sample.endIndex].event_type = "level_complete"
              /\ \E i \in GameOversAfter(sorted, sample.simonIndex) :
                    sorted[i].event_at < sorted[sample.endIndex].event_at

-----------------------------------------------------------------------------
(* Properties: mode classification *)

\* m, lower-cased, holds the characters a and b next to each other
ContainsPair(m, a, b) ==
    \E i \in 1..(Len(m) - 1) : LowerChar(m[i]) = a /\ LowerChar(m[i + 1]) = b

\* C6: mapGameModeToCategory returns AR when the lower-cased, trimmed string
\* contains "ar", otherwise 2D when it contains "2d", otherwise null; null,
\* undefined and '' give null; the AR test comes first.  (Trimming removes
\* white space at the two ends only, so it neither adds nor removes an
\* occurrence of "ar" or "2d".)
C6_ModeClassification ==
    category # "unset" =>
        category = IF gameMode \in {JsNull, JsUndefined, <<>>} THEN "null"
                   ELSE IF ContainsPair(gameMode, "a", "r") THEN "AR"
                   ELSE IF ContainsPair(gameMode, "2", "d") THEN "2D"
                   ELSE "null"

\* a string with both substrings, in mixed case, was classified
C6_Witness ==
    /\ category = "AR"
    /\ gameMode = <<"2", "D", "a", "R">>

-----------------------------------------------------------------------------
(* Properties: aggregates over valid games *)

\* the events of the batch that belong to a valid game
ValidGameEvents(d) ==
    {i \in 1..Len(d) : d[i].game_reference \in QualifyingGames(d)}

\* the levels player p recorded under category cat in valid games
ValidLevelsOfPlayer(d, p, cat) ==
    {d[i].game_level : i \in {j \in ValidGameEvents(d) :
        /\ (IF d[j].player_id \in {JsNull, JsUndefined, <<>>} THEN Unknown
            ELSE d[j].player_id) = p
        /\ d[j].game_level # NullNum
        /\ mapGameModeToCategory(d[j].game_mode) = cat}}

MaxOrNull(S) == IF S = {} THEN NullNum ELSE SetMax(S)

MinOrNull(S) == IF S = {} THEN NullNum ELSE SetMin(S)

\* C2: the per-player level statistics of PlayersList and the per-session
\* max level and games of CorrelationAnalysis are computed from the events of
\* valid games only.
C2_AggregatesOverValidGamesOnly ==
    /\ view.page = "PlayersList" =>
          \A k \in 1..Len(view.players) :
              LET row == view.players[k]
                  ar  == ValidLevelsOfPlayer(data, row.player_id, "AR")
                  td  == ValidLevelsOfPlayer(data, row.player_id, "2D")
              IN  /\ row.highestLevelAR = MaxOrNull(ar)
                  /\ row.lowestLevelAR = MinOrNull({l \in ar : l > 0})
                  /\ row.highestLevel2D = MaxOrNull(td)
                  /\ row.lowestLevel2D = MinOrNull({l \in td : l > 0})
    /\ view.page = "CorrelationAnalysis" =>
          \A k \in 1..Len(view.processedData.sessions) :
              LET session == view.processedData.sessions[k]
                  events  == {i \in ValidGameEvents(data) :
                                 data[i].session_id = session.session_id}
                  levels  == {l \in {data[i].game_level : i \in events} :
                                 l # NullNum /\ l > 0}
              IN  /\ session.maxLevel = (IF levels = {} THEN 0 ELSE SetMax(levels))
                  /\ session.games = {data[i].game_reference : i \in events}

\* the sessions that have an event of a valid game
SessionsWithValidGame(d) ==
    {d[i].session_id : i \in {j \in ValidGameEvents(d) :
        d[j].session_id \notin {JsNull, JsUndefined, <<>>}}}

\* C8: in every view a session_id is counted iff one of its events belongs
\* to a valid game (Dashboard totalSessions, PlayersList sessionCount,
\* DescriptiveAnalysis totalSessions).
C8_SessionCountedIffValidGame ==
    /\ view.page = "Dashboard" =>
          /\ view.stats.uniqueSessions = SessionsWithValidGame(data)
          /\ view.stats.totalSessions = Cardinality(SessionsWithValidGame(data))
    /\ view.page = "PlayersList" =>
          \A k \in 1..Len(view.players) :
              view.players[k].sessionCount =
                  Cardinality({data[i].session_id : i \in {j \in ValidGameEvents(data) :
                      /\ data[j].session_id \notin {JsNull, JsUndefined, <<>>}
                      /\ (IF data[j].player_id \in {JsNull, JsUndefined, <<>>}
                          THEN Unknown ELSE data[j].player_id)
                            = view.players[k].player_id}})
    /\ view.page = "DescriptiveAnalysis" =>
          view.analysisData.totalSessions = Cardinality(SessionsWithValidGame(data))

\* C9: the "Unknown" bucket of the events without player_id is no row of
\* PlayersList and does not count in the Dashboard's totalPlayers.
C9_UnknownPlayerExcluded ==
    /\ view.page = "PlayersList" =>
          \A k \in 1..Len(view.players) : view.players[k].player_id # Unknown
    /\ view.page = "Dashboard" =>
          view.stats.totalPlayers =
              Cardinality({data[i].player_id : i \in {j \in ValidGameEvents(data) :
                  data[j].player_id \notin {JsNull, JsUndefined, <<>>}}})

\* the levels player p recorded under category cat
LevelsOfPlayer(d, p, cat) ==
    {d[i].game_level : i \in {j \in 1..Len(d) :
        /\ (IF d[j].player_id \in {JsNull, JsUndefined, <<>>} THEN Unknown
            ELSE d[j].player_id) = p
        /\ d[j].game_level # NullNum
        /\ mapGameModeToCategory(d[j].game_mode) = cat}}

\* the recorded levels of game g
LevelsOfGame(d, g) ==
    {l \in {d[i].game_level : i \in GroupOf(d, g)} : l # NullNum}

\* the valid games of mode cat that recorded a level, in the order of the batch
GamesWithLevels(d, cat) ==
    SelectSeq(gameRefs(d), LAMBDA g :
        /\ g \in QualifyingGames(d)
        /\ mapGameModeToCategory(rawGameModeOf(eventsByGame(d, g))) = cat
        /\ LevelsOfGame(d, g) # {})

\* C10: level 0 is left out of the lowest level and counts in the highest
\* level when it is the only value: PlayersList per player and mode, and the
\* per-game highest level behind the Dashboard's average highest level.
C10_LevelZeroRule ==
    /\ view.page = "PlayersList" =>
          \A k \in 1..Len(view.players) :
              LET row == view.players[k]
                  ar  == LevelsOfPlayer(data, row.player_id, "AR")
                  td  == LevelsOfPlayer(data, row.player_id, "2D")
              IN  /\ row.highestLevelAR = MaxOrNull(ar)
                  /\ row.lowestLevelAR = MinOrNull({l \in ar : l > 0})
                  /\ row.highestLevel2D = MaxOrNull(td)
                  /\ row.lowestLevel2D = MinOrNull({l \in td : l > 0})
    /\ view.page = "Dashboard" =>
          /\ view.stats.highestLevelsAR =
                [k \in 1..Len(GamesWithLevels(data, "AR")) |->
                    SetMax(LevelsOfGame(data, GamesWithLevels(data, "AR")[k]))]
          /\ view.stats.highestLevels2D =
                [k \in 1..Len(GamesWithLevels(data, "2D")) |->
                    SetMax(LevelsOfGame(data, GamesWithLevels(data, "2D")[k]))]

-----------------------------------------------------------------------------
(* Properties: outcome of a game *)

\* the outcome by priority, first match wins
OutcomeByPriority(events) ==
    LET has(type) == \E i \in 1..Len(events) : events[i].event_type = type
    IN  IF has("game_over") THEN "Game Over"
        ELSE IF has("restart_game") THEN "Restarted"
        ELSE IF has("quit_application") \/ has("back_to_menu") THEN "Player Left"
        ELSE IF has("level_complete") THEN "Level Complete"
        ELSE "Unknown"

\* C7: every game has the outcome Game Over, else Restarted, else Player Left,
\* else Level Complete, else Unknown, whatever the order of its events, in
\* the SessionDetail status and in the DescriptiveAnalysis outcome counts (a
\* game that increments none of the four counters is Unknown there).
C7_OutcomeByPriority ==
    /\ view.page = "SessionDetail" =>
          \A k \in 1..Len(view.gamesData) :
              view.gamesData[k].gameStatus = OutcomeByPriority(view.gamesData[k].events)
    /\ view.page = "DescriptiveAnalysis" =>
          /\ \A g \in DOMAIN view.analysisData.outcomeOfGame :
                (IF view.analysisData.outcomeOfGame[g] = "none" THEN "Unknown"
                 ELSE view.analysisData.outcomeOfGame[g])
                   = OutcomeByPriority(eventsByGame(data, g))
          /\ \A o \in DOMAIN view.analysisData.gameOutcomes :
                view.analysisData.gameOutcomes[o] =
                    Cardinality({g \in QualifyingGames(data) :
                        OutcomeByPriority(eventsByGame(data, g)) = o})

-----------------------------------------------------------------------------
(* Session time bounds *)

SessionEvents(d, s) == SelectSeq(d, LAMBDA item : item.session_id = s)

\* the earliest event_at among all events of the session
CanonicalStart(d, s) == SetMin(timesOf(SessionEvents(d, s)))

\* the latest event_at among the session's events with a non-empty
\* game_reference; NullNum when the session has none
CanonicalEnd(d, s) ==
    LET gameEvents == SelectSeq(SessionEvents(d, s), HasGameReference)
    IN  IF Len(gameEvents) = 0 THEN NullNum ELSE SetMax(timesOf(gameEvents))

\* the positive durations the sessions of S have under the canonical rule
CanonicalDurations(d, S) ==
    {CanonicalEnd(d, s) - CanonicalStart(d, s) :
        s \in {t \in S : CanonicalEnd(d, t) # NullNum
                          /\ CanonicalEnd(d, t) - CanonicalStart(d, t) > 0}}

\* C11: every view that computes a session duration takes the earliest
\* event of the session as its start and the latest event with a
\* game_reference as its end: the longest and shortest session of a player
\* row, the session durations of the descriptive analysis and the durations
\* paired with a maximum level in the correlation analysis are the canonical
\* durations of the sessions concerned.
C11_CanonicalSessionBounds ==
    /\ view.page = "PlayersList" =>
          \A p \in 1..Len(view.players) :
              LET canon == CanonicalDurations(view.players[p].events,
                                              view.players[p].sessionIds)
              IN  /\ view.players[p].longestSession = MaxOrNull(canon)
                  /\ view.players[p].shortestSession = MinOrNull(canon)
    /\ view.page = "DescriptiveAnalysis" =>
          Range(view.analysisData.sessionDurations)
              = CanonicalDurations(data, Range(sessionIdsOf(data)))
    /\ view.page = "CorrelationAnalysis" =>
          \A s \in Range(sessionIdsOf(data)) :
              LET pairs == view.processedData.sessionDurationMaxLevelPairs
                  mine == {k \in 1..Len(pairs) : pairs[k].session_id = s}
                  canon == CanonicalDurations(data, {s})
                  hasLevel == \E i \in 1..Len(data) :
                                  data[i].session_id = s /\ data[i].game_level > 0
              IN  {pairs[k].sessionDuration : k \in mine}
                      = IF hasLevel THEN canon ELSE {}

-----------------------------------------------------------------------------
(* Statistics functions *)

AllFinite(values) == \A i \in 1..Len(values) : isFiniteNumber(values[i])

CountLess(values, v) == Cardinality({i \in 1..Len(values) : RatLess(values[i], v)})

CountLeq(values, v) == Cardinality({i \in 1..Len(values) : RatLeq(values[i], v)})

PercentileFiftyCall ==
    /\ args.fn = "calculatePercentile"
    /\ args.percentile = Num(50)
    /\ result # NoResult
    /\ Len(args.values) > 0
    /\ AllFinite(args.values)

\* C12 as stated: for a non-empty sequence of finite numbers,
\* calculatePercentile(xs, 50) equals calculateMedian(xs), for odd and for
\* even lengths.
C12_PercentileFiftyIsMedian ==
    PercentileFiftyCall => result.value = calculateMedian(args.values)

\* C12: for a non-empty sequence xs of n finite numbers,
\* calculatePercentile(xs, 50) is the lower middle element of xs (fewer than
\* half of the elements are below it, at least half are not above it). It
\* equals calculateMedian(xs) when n is odd; when n is even it is not above
\* the median and equals it exactly when the two middle values are equal.
C12_PercentileFiftyIsLowerMiddle ==
    PercentileFiftyCall =>
        LET xs == args.values
            n  == Len(xs)
            v  == result.value
        IN  /\ v \in Range(xs)
            /\ 2 * CountLess(xs, v) < n
            /\ n <= 2 * CountLeq(xs, v)
            /\ n % 2 = 1 => v = calculateMedian(xs)
            /\ n % 2 = 0 =>
                 /\ RatLeq(v, calculateMedian(xs))
                 /\ v = calculateMedian(xs) <=> n < 2 * CountLeq(xs, v)

\* an even number of values whose two middle values differ: the percentile
\* is below the median
C12_Witness ==
    /\ PercentileFiftyCall
    /\ Len(args.values) % 2 = 0
    /\ RatLess(result.value, calculateMedian(args.values))

FrequencyIn(values, v) == Cardinality({i \in 1..Len(values) : values[i] = v})

FirstIndexOf(values, v) == SetMin({i \in 1..Len(values) : values[i] = v})

\* the values of highest frequency
MostFrequent(values) ==
    {v \in Range(values) :
        \A w \in Range(values) : FrequencyIn(values, w) <= FrequencyIn(values, v)}

\* C13: for a non-empty sequence of finite numbers calculateMode returns,
\* among the values tied for the highest count, the one whose first
\* occurrence comes earliest in the input ([3, 1] gives 3).
C13_ModeIsFirstSeen ==
    ( /\ args.fn = "calculateMode"
      /\ result # NoResult
      /\ Len(args.values) > 0
      /\ AllFinite(args.values) ) =>
        /\ result.value \in MostFrequent(args.values)
        /\ \A w \in MostFrequent(args.values) :
               FirstIndexOf(args.values, result.value) <= FirstIndexOf(args.values, w)

\* the element of the ascending-sorted xs at index i clamped to [0, n-1]
ClampedElement(xs, i) ==
    LET sorted == sortNumbers(xs)
        n == Len(xs)
    IN  sorted[(IF i < 0 THEN 0 ELSE IF i > n - 1 THEN n - 1 ELSE i) + 1]

\* C14: for a non-empty sequence xs of n finite numbers and p >= 0,
\* calculatePercentile(xs, p) is the element of the sorted xs at index
\* ceil(p/100 * n) - 1 clamped to [0, n-1]: always a member of xs, the
\* minimum for p = 0 and the maximum for p >= 100.
C14_PercentileClamped ==
    ( /\ args.fn = "calculatePercentile"
      /\ result # NoResult
      /\ Len(args.values) > 0
      /\ AllFinite(args.values)
      /\ RatLeq(Num(0), args.percentile) ) =>
        LET xs == args.values
            n  == Len(xs)
            p  == args.percentile
        IN  /\ result.value =
                 ClampedElement(xs, Ceil(RatDiv(RatMul(p, Num(n)), Num(100))) - 1)
            /\ result.value \in Range(xs)
            /\ p = Num(0) => result.value = MathMin(xs)
            /\ RatLeq(Num(100), p) => result.value = MathMax(xs)

RECURSIVE SumOfCounts(_)
SumOfCounts(histogram) ==
    IF histogram = <<>> THEN 0
    ELSE histogram[1].count + SumOfCounts(Tail(histogram))

HistogramCall ==
    /\ args.fn = "createHistogramData"
    /\ result # NoResult
    /\ Len(validValuesOf(args.values)) > 0

\* the finite values that lie in bin j of a histogram of `bins' bins: at or
\* above its lower bound and below its upper bound, the last bin taking its
\* upper bound too
ValuesInBin(finite, histogram, j) ==
    {k \in 1..Len(finite) :
        /\ RatLeq(histogram[j].min, finite[k])
        /\ \/ RatLess(finite[k], histogram[j].max)
           \/ j = Len(histogram) /\ finite[k] = histogram[j].max}

\* C15: createHistogramData conserves the data. With at least one finite
\* value the counts sum to the number of finite values; each finite value is
\* counted in the one bin whose range holds it; the bins have equal width
\* and run from the observed minimum to the observed maximum; the maximum is
\* counted in the last bin; when min = max there is a single bin holding
\* every finite value.
C15_HistogramConservesData ==
    HistogramCall =>
        LET finite == validValuesOf(args.values)
            h      == result.value
            min    == MathMin(finite)
            max    == MathMax(finite)
            width  == RatDiv(RatSub(max, min), Num(args.bins))
        IN  /\ SumOfCounts(h) = Len(finite)
            /\ min = max => Len(h) = 1 /\ h[1].count = Len(finite)
            /\ min # max =>
                 /\ Len(h) = args.bins
                 /\ h[1].min = min
                 /\ h[Len(h)].max = max
                 /\ \A j \in 1..Len(h) : RatSub(h[j].max, h[j].min) = width
                 /\ \A j \in 1..(Len(h) - 1) : h[j + 1].min = h[j].max
                 /\ \A j \in 1..Len(h) :
                        h[j].count = Cardinality(ValuesInBin(finite, h, j))
                 /\ \E k \in ValuesInBin(finite, h, Len(h)) : finite[k] = max

\* several bins, a non-finite value dropped, values in the first and in the
\* last bin
C15_Witness ==
    /\ HistogramCall
    /\ Len(result.value) > 1
    /\ Len(validValuesOf(args.values)) < Len(args.values)
    /\ result.value[1].count > 0
    /\ result.value[Len(result.value)].count > 1

-----------------------------------------------------------------------------
(* Correlation functions *)

\* the positions at which both series hold a finite number
FinitePairs(x, y) ==
    {i \in 1..Len(x) : i <= Len(y) /\ isFiniteNumber(x[i]) /\ isFiniteNumber(y[i])}

\* the values of a series at the given positions are all the same
Constant(series, positions) ==
    \A i \in positions : \A j \in positions : series[i] = series[j]

PearsonCall == args.fn = "calculatePearsonCorrelation" /\ result # NoResult

PearsonUndefined ==
    \/ Len(args.x) # Len(args.y)
    \/ Cardinality(FinitePairs(args.x, args.y)) < 2
    \/ Constant(args.x, FinitePairs(args.x, args.y))
    \/ Constant(args.y, FinitePairs(args.x, args.y))

RankCall == args.fn = "rankValues" /\ result # NoResult

\* C17: rankValues gives every value the 1-based position of the first
\* occurrence of that value in the ascending-sorted sequence, which is 1 +
\* the number of strictly smaller values: equal values receive the same
\* rank, wherever they stand in the input.
C17_RankIsFirstSortedPosition ==
    RankCall =>
        LET xs == args.values
            ranks == result.value
            sorted == sortNumbers(xs)
        IN  /\ Len(ranks) = Len(xs)
            /\ \A i \in 1..Len(xs) :
                 /\ ranks[i] = 1 + CountLess(xs, xs[i])
                 /\ ranks[i] = SetMin({k \in 1..Len(sorted) : sorted[k] = xs[i]})
            /\ \A i \in 1..Len(xs) : \A j \in 1..Len(xs) :
                 xs[i] = xs[j] => ranks[i] = ranks[j]

\* a tie that is not adjacent in the input, with a larger value after it in
\* sorted order: ranks 1, 1 and 3 are given
C17_Witness ==
    /\ RankCall
    /\ Len(args.values) >= 3
    /\ args.values[1] = args.values[3]
    /\ RatLess(args.values[1], args.values[2])
    /\ result.value[1] = 1
    /\ result.value[3] = 1
    /\ result.value[2] = 3

-----------------------------------------------------------------------------
(* Inferential statistics and regression *)

ChiSquareCall == args.fn = "performChiSquare" /\ result # NoResult

\* a table of at least 2 rows and 2 columns, every row with the same
\* columns, a positive grand total, each cell equal to
\* rowTotal * colTotal / grandTotal
Proportional(observed) ==
    /\ Len(observed) >= 2
    /\ Cardinality(DOMAIN observed[1]) >= 2
    /\ \A r \in 1..Len(observed) : DOMAIN observed[r] = DOMAIN observed[1]
    /\ LET cols == DOMAIN observed[1]
           row(r) == SumInts([k \in 1..Len(groupsOf(observed)) |->
                                 observed[r][groupsOf(observed)[k]]])
           col(g) == SumInts([r \in 1..Len(observed) |-> observed[r][g]])
           grand == SumInts([r \in 1..Len(observed) |-> row(r)])
       IN  /\ grand > 0
           /\ \A r \in 1..Len(observed) : \A g \in cols :
                  observed[r][g] * grand = row(r) * col(g)

\* C18: for a contingency table of at least 2 rows and 2 columns with a
\* positive grand total whose cells all equal rowTotal * colTotal /
\* grandTotal, performChiSquare returns chiSquare = 0, pValue = 1,
\* significant = false and degreesOfFreedom = (rows - 1) * (columns - 1).
C18_ProportionalTableNotSignificant ==
    (ChiSquareCall /\ Proportional(args.observed)) =>
        /\ "error" \notin DOMAIN result.value
        /\ result.value.chiSquare = Num(0)
        /\ result.value.pValue = [exact |-> Num(1)]
        /\ result.value.significant = FALSE
        /\ result.value.degreesOfFreedom =
             (Len(args.observed) - 1) * (Cardinality(DOMAIN args.observed[1]) - 1)

\* a proportional table whose rows differ and whose columns differ
C18_Witness ==
    /\ ChiSquareCall
    /\ Proportional(args.observed)
    /\ Len(args.observed) = 3
    /\ args.observed[1] # args.observed[2]
    /\ args.observed[1]["g1"] # args.observed[1]["g2"]
    /\ result.value.chiSquare = Num(0)

RegressionCall == args.fn = "performSimpleLinearRegression" /\ result # NoResult

\* two positions with different x values
DistinctXs(x) == {pair \in (1..Len(x)) \X (1..Len(x)) : x[pair[1]] # x[pair[2]]}

\* the slope and the intercept of the line through two points of the input
SlopeThrough(x, y, pair) ==
    RatDiv(RatSub(y[pair[2]], y[pair[1]]), RatSub(x[pair[2]], x[pair[1]]))

InterceptThrough(x, y, pair) ==
    RatSub(y[pair[1]], RatMul(SlopeThrough(x, y, pair), x[pair[1]]))

\* n >= 2 finite points, at least two distinct x values, all on the line
\* y = a + b * x with integer a and b
OnLine(x, y, a, b) ==
    /\ Len(x) = Len(y)
    /\ Len(x) >= 2
    /\ AllFinite(x)
    /\ AllFinite(y)
    /\ DistinctXs(x) # {}
    /\ a.den = 1
    /\ b.den = 1
    /\ \A i \in 1..Len(x) : y[i] = RatAdd(a, RatMul(b, x[i]))

\* the line the points lie on, if any: the one through two points of
\* different x
LineOf(x, y) ==
    LET pair == CHOOSE q \in DistinctXs(x) : TRUE
    IN  [a |-> InterceptThrough(x, y, pair), b |-> SlopeThrough(x, y, pair)]

PointsOnLine ==
    /\ RegressionCall
    /\ Len(args.x) = Len(args.y)
    /\ AllFinite(args.x)
    /\ AllFinite(args.y)
    /\ DistinctXs(args.x) # {}
    /\ OnLine(args.x, args.y, LineOf(args.x, args.y).a, LineOf(args.x, args.y).b)

\* C19 as stated: for n >= 2 points with two distinct x values that lie on
\* y = a + b * x (integer a, b), performSimpleLinearRegression returns
\* slope = b, intercept = a, rSquared = 1 and n = the number of points.
C19_ExactLineFitsPerfectly ==
    PointsOnLine =>
        /\ "error" \notin DOMAIN result.value
        /\ result.value.slope = LineOf(args.x, args.y).b
        /\ result.value.intercept = LineOf(args.x, args.y).a
        /\ result.value.rSquared = Num(1)
        /\ result.value.n = Len(args.x)

\* C19: for n >= 2 points with two distinct x values that lie on
\* y = a + b * x (integer a, b), performSimpleLinearRegression returns
\* slope = b, intercept = a and n = the number of points; rSquared is 1 when
\* b is not 0, and 0 when b = 0 (y does not vary, the total sum of squares
\* is 0).
C19_ExactLineSlopeAndIntercept ==
    PointsOnLine =>
        /\ "error" \notin DOMAIN result.value
        /\ result.value.slope = LineOf(args.x, args.y).b
        /\ result.value.intercept = LineOf(args.x, args.y).a
        /\ result.value.n = Len(args.x)
        /\ LineOf(args.x, args.y).b # Num(0) => result.value.rSquared = Num(1)
        /\ LineOf(args.x, args.y).b = Num(0) => result.value.rSquared = Num(0)

\* three points on a horizontal line: slope 0 and rSquared 0
C19_Witness ==
    /\ PointsOnLine
    /\ Len(args.x) = 3
    /\ result.value.slope = Num(0)
    /\ result.value.intercept = Num(2)
    /\ result.value.rSquared = Num(0)

PairedCall == args.fn = "performPairedTTest" /\ result # NoResult

\* the pairs in which both values are non-null
PresentPairs(pairs) ==
    {i \in 1..Len(pairs) : pairs[i].arMaxLevel # Null /\ pairs[i].twoDMaxLevel # Null}

\* AR value minus 2D value of pair i
DifferenceAt(pairs, i) == RatSub(pairs[i].arMaxLevel, pairs[i].twoDMaxLevel)

RECURSIVE SumOfDifferences(_, _)
SumOfDifferences(pairs, positions) ==
    IF positions = {} THEN Num(0)
    ELSE LET i == CHOOSE k \in positions : TRUE
         IN  RatAdd(DifferenceAt(pairs, i), SumOfDifferences(pairs, positions \ {i}))

PairedUndefined ==
    \/ Cardinality(PresentPairs(args.pairs)) < 2
    \/ \A i \in PresentPairs(args.pairs) : \A j \in PresentPairs(args.pairs) :
           DifferenceAt(args.pairs, i) = DifferenceAt(args.pairs, j)

-----------------------------------------------------------------------------
(* Properties: levels of the level-based aggregates *)

LevelAboveZero(level) == level # NullNum /\ level > 0

\* every sample is keyed by a level above zero and starts at an event of
\* that level
SamplesAboveZero(samples) ==
    \A i \in 1..Len(samples) :
        /\ LevelAboveZero(samples[i].level)
        /\ SortedGame(data, samples[i].game)[samples[i].simonIndex].game_level
               = samples[i].level

\* C21: no response-time sample, no entry of levels / levelsByMode, no
\* response-time-by-level bucket (the groups handed to the ANOVA) is keyed
\* by a level that is null or <= 0, and the start event of a sample never
\* carries such a level.
C21_LevelAggregatesAboveZero ==
    /\ view.page = "DescriptiveAnalysis" =>
         /\ SamplesAboveZero(view.analysisData.samples)
         /\ \A i \in 1..Len(view.analysisData.levels) :
                LevelAboveZero(view.analysisData.levels[i])
         /\ \A c \in {"AR", "2D"} :
                \A i \in 1..Len(view.analysisData.levelsByMode[c]) :
                    LevelAboveZero(view.analysisData.levelsByMode[c][i])
    /\ view.page = "CorrelationAnalysis" =>
         SamplesAboveZero(view.processedData.responseTimeLevelPairs)
    /\ view.page = "RegressionAnalysis" =>
         SamplesAboveZero(view.processedData.simpleRegressionData)
    /\ view.page = "InferentialStatistics" =>
         \A level \in DOMAIN view.processedData.responseTimesByLevel :
             /\ LevelAboveZero(level)
             /\ Len(view.processedData.responseTimesByLevel[level]) > 0

\* a game with a selection on level 0, one without a level and one on level
\* 1 ended by a game_over without a level: the only bucket is that of level 1
C21_Witness ==
    /\ view.page = "InferentialStatistics"
    /\ \E i, j, k \in 1..Len(data) :
          /\ data[i].event_type = "simon_select" /\ data[i].game_level = 0
          /\ data[j].event_type = "simon_select" /\ data[j].game_level = 1
          /\ data[k].event_type = "game_over" /\ data[k].game_level = NullNum
    /\ DOMAIN view.processedData.responseTimesByLevel = {1}

-----------------------------------------------------------------------------
(* Properties: logout *)

LogoutSettles == auth.logoutCall # "settled" /\ auth'.logoutCall = "settled"

\* C22: when logout() settles, after a resolved, a rejected or a skipped
\* call of the logout API, the token and user entries are gone from
\* localStorage, token and user are null and isAuthenticated is false; the
\* sidebar navigates to /login only from a settled logout().
C22_LogoutClearsThenRedirects ==
    [][ /\ LogoutSettles =>
             /\ auth'.storedToken = JsNull /\ auth'.storedUser = JsNull
             /\ auth'.token = JsNull /\ auth'.user = JsNull
             /\ ~isAuthenticated(auth')
             /\ auth'.logoutOutcome \in {"resolved", "rejected", "skipped"}
        /\ (auth'.redirectedBy = "Sidebar" /\ auth.redirectedBy # "Sidebar") =>
             /\ auth.logoutCall = "settled"
             /\ auth'.location = "/login" ]_vars

\* the logout API rejected and the sidebar has navigated
C22_Witness ==
    /\ auth.mounted
    /\ auth.logoutOutcome = "rejected"
    /\ auth.redirectedBy = "Sidebar"
    /\ auth.location = "/login"
    /\ auth.token = JsNull /\ auth.storedToken = JsNull

-----------------------------------------------------------------------------
(* Properties: loadGameData in 'combined' mode *)

CombinedCall ==
    /\ args.fn = "loadGameData" /\ args.mode = "combined"
    /\ result.returned

\* the events a source contributes: its body when it answered with an array
EventsOf(outcome) ==
    IF outcome.ok /\ outcome.isArray THEN outcome.body ELSE <<>>

\* C23: in 'combined' mode loadGameData never rejects; a failing JSON or
\* API load contributes no event, the API is queried only when
\* isAuthenticated, and the result is the JSON events followed by the API
\* events, unfiltered and in order (its length the sum of both lengths).
C23_CombinedConcatenatesSources ==
    CombinedCall =>
        LET jsonEvents == EventsOf(args.json)
            apiEvents == IF args.isAuthenticated THEN EventsOf(args.api) ELSE <<>>
        IN  /\ ~result.value.rejected
            /\ queriesAPI(args.mode, args.isAuthenticated) <=> args.isAuthenticated
            /\ Len(result.value.value) = Len(jsonEvents) + Len(apiEvents)
            /\ \A i \in 1..Len(jsonEvents) : result.value.value[i] = jsonEvents[i]
            /\ \A i \in 1..Len(apiEvents) :
                   result.value.value[Len(jsonEvents) + i] = apiEvents[i]

\* both sources answer with the same two events in opposite orders: four
\* events, nothing dropped or reordered
C23_Witness ==
    /\ CombinedCall
    /\ args.isAuthenticated
    /\ args.json.ok /\ args.json.isArray /\ Len(args.json.body) = 2
    /\ args.api.ok /\ args.api.isArray /\ Len(args.api.body) = 2
    /\ args.json.body[1] = args.api.body[2]
    /\ args.json.body[2] = args.api.body[1]
    /\ args.json.body[1] # args.json.body[2]
    /\ Len(result.value.value) = 4

-----------------------------------------------------------------------------
(* Properties: GameDataProvider *)

\* a call of fetchData settles in this step
FetchHasSettled ==
    /\ loader.mounted /\ loader'.mounted
    /\ loader'.lastSettle # loader.lastSettle
    /\ loader'.lastSettle.kind # "none"

UnauthorizedInApiMode(l) ==
    l.mode = "api" /\ l.lastSettle.kind = "rejected" /\ l.lastSettle.status = 401

\* C24: a fetch that fails with anything but a 401 in API mode sets error to
\* 'Failed to load game data' and leaves data as it was; a fetch that fails
\* with a 401 in API mode, or is made in API mode without authentication,
\* resets data to the empty list with an empty error; loading is false once
\* the fetch has settled.
C24_FetchFailureEffects ==
    [][ FetchHasSettled =>
          /\ ~loader'.loading
          /\ (loader'.lastSettle.kind = "rejected" /\ ~UnauthorizedInApiMode(loader')) =>
                (loader'.error = FailedToLoad /\ data' = data)
          /\ (UnauthorizedInApiMode(loader') \/ loader'.lastSettle.kind = "skipped") =>
                (data' = <<>> /\ loader'.error = "") ]_vars

\* the part of C24 that holds: the same, the unauthenticated call in API
\* mode leaving error as it was
C24_FetchFailureEffectsButError ==
    [][ FetchHasSettled =>
          /\ ~loader'.loading
          /\ (loader'.lastSettle.kind = "rejected" /\ ~UnauthorizedInApiMode(loader')) =>
                (loader'.error = FailedToLoad /\ data' = data)
          /\ UnauthorizedInApiMode(loader') => (data' = <<>> /\ loader'.error = "")
          /\ loader'.lastSettle.kind = "skipped" =>
                (data' = <<>> /\ loader'.error = loader.error) ]_vars

\* C26: once no call of fetchData is in flight, data is what the call that
\* was started last put there, not what an earlier call resolved with later.
C26_LastStartedFetchWins ==
    ( /\ loader.mounted
      /\ loader.started > 0
      /\ loader.calls = {}
      /\ loader.latest.id = loader.started ) => data = loader.latest.value

-----------------------------------------------------------------------------
(* Properties: the mode of a game in validation and in extraction *)

\* the category validation classifies game g by: that of the first event
\* of the group, in the order of the batch, that carries a game_mode
ValidationCategory(d, g) ==
    LET withMode == {i \in GroupOf(d, g) : d[i].game_mode \notin {JsNull, JsUndefined, <<>>}}
        c == IF withMode = {} THEN "null"
             ELSE mapGameModeToCategory(d[SetMin(withMode)].game_mode)
    IN  IF c = "null" THEN "Unknown" ELSE c

\* C25: for every valid game the mode category that decided its validity
\* is the mode category extraction uses for it, and the game holds an event
\* of the qualifying type extraction searches for.
C25_SameModeInValidationAndExtraction ==
    view.page = "DescriptiveAnalysis" =>
        \A g \in DOMAIN view.analysisData.modeOfGame :
            /\ view.analysisData.modeOfGame[g] = ValidationCategory(data, g)
            /\ \E i \in GroupOf(data, g) :
                  data[i].event_type =
                      IF view.analysisData.modeOfGame[g] = "AR"
                      THEN "simon_select_end" ELSE "simon_select"

-----------------------------------------------------------------------------
(* Properties: pagination of the Data page *)

\* C27: on the Data page 1 <= currentPage <= max(1, totalPages) after any
\* sequence of page, sort, filter, search, items-per-page changes, cleared
\* filters and data refreshes, so the page shown is not empty while records
\* match.
C27_CurrentPageWithinBounds ==
    table.mounted =>
        LET sorted == tableRows(data, table)
            pages == totalPages(Len(sorted), table.itemsPerPage)
        IN  /\ 1 <= table.currentPage
            /\ table.currentPage <= (IF pages > 1 THEN pages ELSE 1)
            /\ Len(sorted) > 0 =>
                   Len(paginatedData(sorted, table.currentPage, table.itemsPerPage)) > 0

-----------------------------------------------------------------------------
(* Properties: the end event of a sample *)

\* sample i ends at a game_over event
EndsAtGameOver(samples, i) ==
    SortedGame(data, samples[i].game)[samples[i].endIndex].event_type = "game_over"

\* C28: within one game a game_over event ends the sample of at most one
\* level: no two samples of different levels of a game end at the same
\* game_over.
C28_GameOverEndsOneLevel ==
    view.page = "DescriptiveAnalysis" =>
        LET samples == view.analysisData.samples
        IN  \A i, j \in 1..Len(samples) :
                ( /\ samples[i].game = samples[j].game
                  /\ samples[i].endIndex = samples[j].endIndex
                  /\ EndsAtGameOver(samples, i) ) =>
                    samples[i].level = samples[j].level

-----------------------------------------------------------------------------
(* Properties: validity of a game in the player and session views *)

\* the game_reference values of the events of a session as PlayerDetail
\* holds it
RefsOfSession(session) ==
    {session.events[i].game_reference : i \in {j \in 1..Len(session.events) :
        HasGameReference(session.events[j])}}

\* C29: a game_reference with events in a session of a player is a valid
\* game for PlayerDetail (the session's games) and for SessionDetail (the
\* games it lists) iff it is valid for the Dashboard, which judges all the
\* events of the game_reference; the games listed under the session are the
\* valid games that have events in it.
C29_ValidityIsViewIndependent ==
    view.page = "SessionDetail" =>
        LET listed == {view.gamesData[k].game_reference : k \in 1..Len(view.gamesData)}
        IN  /\ \A g \in RefsOfSession(view.session) :
                  /\ g \in view.session.games <=> g \in gamesWithSimonSelect(data)
                  /\ g \in listed <=> g \in gamesWithSimonSelect(data)
            /\ listed = RefsOfSession(view.session) \cap gamesWithSimonSelect(data)


\* every group performANOVA keeps (two values or more) holds one finite value
\* repeated
ZeroWithinGroupVariance(groups) ==
    \A key \in 1..Len(groups) :
        Len(groups[key]) >= 2 =>
            \A k \in 1..Len(groups[key]) :
                isFiniteNumber(groups[key][k]) /\ groups[key][k] = groups[key][1]

====
